---------------------------- MODULE Spec2Model ----------------------------
(***************************************************************************)
(* A model of the Triton Food Works dashboard: the value normalizer, the   *)
(* sheet classifier, the record quality filter, the metric aggregators,    *)
(* the dashboard assembler (src/app/page.tsx and                           *)
(* src/components/ModernExcelDashboard.tsx) and the refresh hook           *)
(* (src/lib/useRealTimeSheetsData.ts).                                     *)
(*                                                                         *)
(* Conventions.                                                            *)
(*  - A JavaScript string is a TLA+ string; only Len, SubSeq and \o are    *)
(*    used on it.  The currency symbols are written with the ASCII         *)
(*    stand-ins RUPEE, EURO, POUND and YEN below; "$" is itself.           *)
(*  - null and undefined are the two values NULL and UNDEFINED, which no   *)
(*    string of the model equals.                                          *)
(*  - A JavaScript number is an exact decimal [m |-> mantissa, e |->       *)
(*    digits after the point], kept normalised (no trailing zero digit),   *)
(*    or NaN.  Binary rounding of doubles is not modelled.                 *)
(***************************************************************************)
EXTENDS Integers, Sequences, FiniteSets, TLC

VARIABLES
    \* --- value normalizer calls
    value,          \* the argument handed to cleanNumericValue / isEmptyValue
    numeric,        \* <<r>> once cleanNumericValue(value) returned r, else <<>>
    empty,          \* <<b>> once isEmptyValue(value) returned b, else <<>>
    \* --- sheet classifier calls
    sheetName,      \* the name handed to detectSheetType
    sheetHeaders,   \* the headers handed to detectSheetType
    sheetType,      \* <<t>> once detectSheetType returned t, else <<>>
    \* --- record quality filter calls
    record,         \* the record handed to hasMinimalContent
    accepted,       \* <<b>> once hasMinimalContent(record) returned b, else <<>>
    records,        \* the array handed to filterRecords
    filtered,       \* <<a>> once filterRecords(records) returned the array a, else <<>>
    \* --- the dashboard page
    sheetsData,     \* the snapshot: the sheets in tab order, each [name, headers, rows]
    now,            \* the clock, in hours since the UNIX epoch
    dashboard,      \* <<d>> once Home built the dashboard data d, else <<>>
    settlement,     \* how the race of getAllSheets with the timeout settled:
                    \* "sheets" (resolved with sheetsData), resolved with "null",
                    \* "undefined" or a "string", or rejected by the "timeout" or
                    \* by getAllSheets ("rejected")
    \* --- the refresh hook
    data,               \* useState: the payload of the last successful fetch, or NULL
    loading,            \* useState
    error,              \* useState: a message or NULL
    refreshing,         \* useState
    connectionStatus,   \* useState
    abortControllerRef, \* the request whose controller the ref holds, 0 for null
    intervalRef,        \* TRUE while the auto-refresh interval is set
    requests,           \* the calls of fetchData so far: [isRefresh, attempt, state]
    timers,             \* the retries scheduled by setTimeout and not yet fired
    mounted,            \* FALSE once the component unmounted
    \* --- the sheet source
    library,        \* the copy of lib/googleSheets.ts: "part_005" or "part_006"
    env,            \* process.env: the value of each variable, "" if unset
    remote,         \* what Google answers: [direct, proxy, ok, readable, api, tabs]
    allSheets,      \* <<r>> once getAllSheets settled with r, else <<>>
    \* --- field lookups
    lookupRow,      \* the row handed to tryFieldNames
    lookupFields,   \* the candidate field names handed to tryFieldNames
    lookupValue,    \* <<n>> once tryFieldNames returned n, else <<>>
    \* --- the cells of the record cards
    cellValue,      \* the cell value handed to isExcelDate and to the cell renderer
    excelDate,      \* <<b>> once isExcelDate(cellValue) returned b, else <<>>
    formatted       \* <<t>> once the renderer showed formatDate(cellValue) = t, else <<>>

valueVars == <<value, numeric, empty>>
classifyVars == <<sheetName, sheetHeaders, sheetType>>
contentVars == <<record, accepted>>
filterVars == <<records, filtered>>
dashVars == <<sheetsData, now, dashboard, settlement>>
hookVars ==
    <<data, loading, error, refreshing, connectionStatus, abortControllerRef,
      intervalRef, requests, timers, mounted>>
sourceVars == <<library, env, remote, allSheets>>
lookupVars == <<lookupRow, lookupFields, lookupValue>>
dateVars == <<cellValue, excelDate, formatted>>
vars ==
    <<valueVars, classifyVars, contentVars, filterVars, dashVars, hookVars, sourceVars,
      lookupVars, dateVars>>

NONE == "<none>"
NULL == "<null>"
UNDEFINED == "<undefined>"
\* the not-a-number value, a record so that it compares with the decimals
NaN == [nan |-> TRUE]

\* ASCII stand-ins for the non-ASCII currency symbols of the source.
RUPEE == "#"
EURO == "@"
POUND == "&"
YEN == "%"

-----------------------------------------------------------------------------
(* Bounds *)

\* longest generated cell value
MaxLen == 3
\* most headers of a sheet handed to the classifier
MaxHeaders == 2
\* most records handed to filterRecords
MaxRecords == 3
\* most rows of a generated sheet of a snapshot
MaxRows == 2

-----------------------------------------------------------------------------
(* Strings *)

CharAt(s, i) == SubSeq(s, i, i)

\* String.prototype.includes
Includes(s, sub) ==
    \E i \in 1..(Len(s) - Len(sub) + 1) : SubSeq(s, i, i + Len(sub) - 1) = sub

\* the lower-case letter of each upper-case letter
LowerMap ==
    [c \in {SubSeq("ABCDEFGHIJKLMNOPQRSTUVWXYZ", i, i) : i \in 1..26} |->
        LET i == CHOOSE i \in 1..26 : SubSeq("ABCDEFGHIJKLMNOPQRSTUVWXYZ", i, i) = c
        IN  SubSeq("abcdefghijklmnopqrstuvwxyz", i, i)]

\* the upper-case letter of each lower-case letter
UpperMap ==
    [c \in {LowerMap[u] : u \in DOMAIN LowerMap} |->
        CHOOSE u \in DOMAIN LowerMap : LowerMap[u] = c]

RECURSIVE toLowerCase(_)
toLowerCase(s) ==
    IF s = "" THEN ""
    ELSE (IF Head(s) \in DOMAIN LowerMap THEN LowerMap[Head(s)] ELSE Head(s))
         \o toLowerCase(Tail(s))

RECURSIVE toUpperCase(_)
toUpperCase(s) ==
    IF s = "" THEN ""
    ELSE (IF Head(s) \in DOMAIN UpperMap THEN UpperMap[Head(s)] ELSE Head(s))
         \o toUpperCase(Tail(s))

RECURSIVE trimStart(_)
trimStart(s) ==
    IF s # "" /\ Head(s) = " " THEN trimStart(Tail(s)) ELSE s

RECURSIVE trimEnd(_)
trimEnd(s) ==
    IF s # "" /\ CharAt(s, Len(s)) = " "
    THEN trimEnd(SubSeq(s, 1, Len(s) - 1))
    ELSE s

\* String.prototype.trim (the only white space of the model is the blank)
trim(s) == trimEnd(trimStart(s))

\* s.replace(/[chars]/g, ''): every character of s that is in chars is dropped
RECURSIVE StripChars(_, _)
StripChars(s, chars) ==
    IF s = "" THEN ""
    ELSE (IF Head(s) \in chars THEN "" ELSE Head(s)) \o StripChars(Tail(s), chars)

-----------------------------------------------------------------------------
(* Numbers *)

RECURSIVE Pow10(_)
Pow10(n) == IF n = 0 THEN 1 ELSE 10 * Pow10(n - 1)

RECURSIVE Normalise(_)
Normalise(d) ==
    IF d.m = 0 THEN [m |-> 0, e |-> 0]
    ELSE IF d.e > 0 /\ d.m % 10 = 0 THEN Normalise([m |-> d.m \div 10, e |-> d.e - 1])
    ELSE d

\* the number n
Num(n) == [m |-> n, e |-> 0]

Max(a, b) == IF a >= b THEN a ELSE b

\* a.m / 10^a.e written with x digits after the point, x >= a.e
Scaled(a, x) == a.m * Pow10(x - a.e)

Plus(a, b) ==
    LET x == Max(a.e, b.e) IN Normalise([m |-> Scaled(a, x) + Scaled(b, x), e |-> x])

Minus(a, b) ==
    LET x == Max(a.e, b.e) IN Normalise([m |-> Scaled(a, x) - Scaled(b, x), e |-> x])

\* a > b
Gt(a, b) == LET x == Max(a.e, b.e) IN Scaled(a, x) > Scaled(b, x)
Ge_Strict(a, b) == Gt(a, b)
\* a >= b
Ge(a, b) == LET x == Max(a.e, b.e) IN Scaled(a, x) >= Scaled(b, x)

\* the value of each digit
DigitMap == [c \in {SubSeq("0123456789", i, i) : i \in 1..10} |->
                (CHOOSE i \in 1..10 : SubSeq("0123456789", i, i) = c) - 1]

\* the longest prefix of s made of digits
RECURSIVE DigitPrefix(_)
DigitPrefix(s) ==
    IF s # "" /\ Head(s) \in DOMAIN DigitMap THEN Head(s) \o DigitPrefix(Tail(s)) ELSE ""

RECURSIVE DigitsValue(_)
DigitsValue(s) ==
    IF s = "" THEN 0
    ELSE DigitsValue(SubSeq(s, 1, Len(s) - 1)) * 10 + DigitMap[CharAt(s, Len(s))]

\* the number with this sign, these integer digits and these fraction digits
Decimal(sign, int, frac) ==
    IF int = "" /\ frac = "" THEN NaN
    ELSE Normalise([m |-> sign * (DigitsValue(int) * Pow10(Len(frac)) + DigitsValue(frac)),
                    e |-> Len(frac)])

\* the digits after the point that follows the first n characters of u, none
\* if no point follows them
Fraction(u, n) ==
    IF Len(u) > n /\ CharAt(u, n + 1) = "." THEN DigitPrefix(SubSeq(u, n + 2, Len(u))) ELSE ""

\* the literal at the start of u
parseUnsigned(sign, u) == Decimal(sign, DigitPrefix(u), Fraction(u, Len(DigitPrefix(u))))

\* parseFloat: leading white space is skipped, then the longest prefix that is
\* a decimal literal (sign, digits, point, digits) is read; NaN when there is
\* none.  The inputs of the model hold no exponent and no "Infinity".
parseFloat(s) ==
    LET t == trimStart(s)
    IN  IF t # "" /\ Head(t) = "-" THEN parseUnsigned(-1, Tail(t))
        ELSE IF t # "" /\ Head(t) = "+" THEN parseUnsigned(1, Tail(t))
        ELSE parseUnsigned(1, t)

-----------------------------------------------------------------------------
(* Value normalizer *)

\* parsed || 0
OrZero(parsed) == IF parsed = NaN \/ parsed = Num(0) THEN Num(0) ELSE parsed

\* page.tsx cleanNumericValue: String(value).replace(/[,kg₹$]/g, ''), then
\* parseFloat(cleaned) || 0
cleanNumericValue(v) ==
    IF v = NULL \/ v = UNDEFINED THEN Num(0)
    ELSE OrZero(parseFloat(StripChars(v, {",", "k", "g", RUPEE, "$"})))

\* ModernExcelDashboard.tsx EMPTY_VALUES, its strings and null / undefined
\* (the number 0 of the list is not a cell value of the model)
EMPTY_VALUES == {"", NULL, UNDEFINED, "0", "N/A", "n/a", "na", "NA", "-", "null", "undefined"}

\* ModernExcelDashboard.tsx isEmptyValue
isEmptyValue(v) ==
    IF v \in EMPTY_VALUES THEN TRUE
    ELSE IF v \notin {NULL, UNDEFINED}
         THEN LET trimmed == toLowerCase(trim(v))
              IN  trimmed = "" \/ trimmed \in {"n/a", "na", "null", "undefined", "-"}
         ELSE FALSE

-----------------------------------------------------------------------------
(* Inputs of the value normalizer *)

RECURSIVE StringsUpTo(_, _)
StringsUpTo(alphabet, n) ==
    IF n = 0 THEN {""}
    ELSE LET shorter == StringsUpTo(alphabet, n - 1)
         IN  shorter \cup {s \o c : s \in shorter, c \in alphabet}

\* the cell values handed to the normalizer: every string of at most MaxLen
\* characters of an alphabet, longer examples, null and undefined
Values ==
    StringsUpTo({"0", "1", ",", ".", "-", " ", "k", RUPEE, EURO, "x"}, MaxLen)
    \cup { RUPEE \o "1,25,000", EURO \o "100", POUND \o "7", YEN \o "8", "$20",
           "5kg", "1.5kg", "12 kg", "abc", "-5",
           "n/a", "N/A", " N/A ", "na", "NA", "Na", "null", "undefined", " Null ", " - ",
           " 0 ", "0 ", "00", "tbd" }
    \cup {NULL, UNDEFINED}

CleanNumericValue ==
    /\ numeric = <<>>
    /\ numeric' = <<cleanNumericValue(value)>>
    /\ UNCHANGED <<value, empty, classifyVars, contentVars, filterVars, dashVars, hookVars, sourceVars,
                   lookupVars, dateVars>>

IsEmptyValue ==
    /\ empty = <<>>
    /\ empty' = <<isEmptyValue(value)>>
    /\ UNCHANGED <<value, numeric, classifyVars, contentVars, filterVars, dashVars, hookVars, sourceVars,
                   lookupVars, dateVars>>

-----------------------------------------------------------------------------
(* Sheet classifier *)

SHEET_TYPE_CONFIG_RevenueFirst ==
    << [type |-> "financial-revenue", keywords |-> <<>>,
        headers |-> <<"Revenue", "Income", "Sales">>],
       [type |-> "production-batches", keywords |-> <<"BATCH">>,
        headers |-> <<"BatchID", "SownDate">>],
       [type |-> "harvest-tracking", keywords |-> <<"HARVEST">>,
        headers |-> <<"QtyHarvested", "HarvestDate">>],
       [type |-> "sourcing-procurement", keywords |-> <<"SOURCING", "PROCUREMENT">>,
        headers |-> <<"Vendor", "Supplier">>],
       [type |-> "post-harvest-logistics", keywords |-> <<"POST_HARVEST", "POST-HARVEST">>,
        headers |-> <<"Sorting", "Packaging", "Transit">>],
       [type |-> "financial-expense", keywords |-> <<>>,
        headers |-> <<"Expense", "Cost", "Amount">>],
       [type |-> "production-settings", keywords |-> <<"SETTINGS">>,
        headers |-> <<"PricePerKg", "GermDays">>] >>

\* page.tsx SHEET_TYPE_CONFIG, in declaration order (colour and icon left out)
SHEET_TYPE_CONFIG ==
    << [type |-> "production-batches", keywords |-> <<"BATCH">>,
        headers |-> <<"BatchID", "SownDate">>],
       [type |-> "harvest-tracking", keywords |-> <<"HARVEST">>,
        headers |-> <<"QtyHarvested", "HarvestDate">>],
       [type |-> "sourcing-procurement", keywords |-> <<"SOURCING", "PROCUREMENT">>,
        headers |-> <<"Vendor", "Supplier">>],
       [type |-> "post-harvest-logistics", keywords |-> <<"POST_HARVEST", "POST-HARVEST">>,
        headers |-> <<"Sorting", "Packaging", "Transit">>],
       [type |-> "financial-revenue", keywords |-> <<>>,
        headers |-> <<"Revenue", "Income", "Sales">>],
       [type |-> "financial-expense", keywords |-> <<>>,
        headers |-> <<"Expense", "Cost", "Amount">>],
       [type |-> "production-settings", keywords |-> <<"SETTINGS">>,
        headers |-> <<"PricePerKg", "GermDays">>] >>

\* the body of detectSheetType's loop, from entry i on
RECURSIVE detectFrom(_, _, _)
detectFrom(i, nameUpper, headers) ==
    IF i > Len(SHEET_TYPE_CONFIG) THEN "general"
    ELSE LET config == SHEET_TYPE_CONFIG[i]
             hasKeyword == \E k \in 1..Len(config.keywords) :
                               Includes(nameUpper, config.keywords[k])
             hasHeader == \E x \in 1..Len(config.headers) :
                              \E y \in 1..Len(headers) :
                                  headers[y] # "" /\ Includes(headers[y], config.headers[x])
         IN  IF hasKeyword \/ hasHeader THEN config.type
             ELSE detectFrom(i + 1, nameUpper, headers)

\* page.tsx detectSheetType
detectSheetType(name, headers) == detectFrom(1, toUpperCase(name), headers)

RECURSIVE SeqsUpTo(_, _)
SeqsUpTo(S, n) ==
    IF n = 0 THEN {<<>>}
    ELSE LET shorter == SeqsUpTo(S, n - 1)
         IN  shorter \cup {Append(q, x) : q \in shorter, x \in S}

SheetNameInputs ==
    { "Batch_Revenue", "batches", "Harvest_Log", "Post_Harvest", "post-harvest",
      "Sourcing", "Procurement", "Settings", "Sales", "Sheet1" }

HeaderInputs ==
    { "BatchID", "Revenue", "revenue", "QtyHarvested(kg)", "Vendor", "Packaging",
      "Total Cost", "PricePerKg", "Notes", "" }

DetectSheetType ==
    /\ sheetType = <<>>
    /\ sheetType' = <<detectSheetType(sheetName, sheetHeaders)>>
    /\ UNCHANGED <<sheetName, sheetHeaders, valueVars, contentVars, filterVars, dashVars, hookVars, sourceVars,
                   lookupVars, dateVars>>

-----------------------------------------------------------------------------
(* Record quality filter *)

\* row[field]: undefined when the row has no such key
Get(row, field) == IF field \in DOMAIN row THEN row[field] ELSE UNDEFINED

JunkTokens == {"tbd", "tbc", "pending", "temp", "test", "na", "n/a"}

\* hasMinimalContent's importantFields
ContentImportantFields ==
    <<"BatchID", "Date", "Employee", "Vendor", "Description", "Amount", "Cost", "QtyHarvested">>

\* hasMinimalContent's isImportantField, for the key of the loop
isImportantField(key) ==
    LET fieldLower == toLowerCase(key)
    IN  \/ \E i \in 1..Len(ContentImportantFields) :
              \/ Includes(fieldLower, toLowerCase(ContentImportantFields[i]))
              \/ fieldLower = toLowerCase(ContentImportantFields[i])
        \/ Includes(fieldLower, "id")
        \/ Includes(fieldLower, "name")
        \/ Includes(fieldLower, "amount")
        \/ Includes(fieldLower, "qty")
        \/ Includes(fieldLower, "price")
        \/ Includes(fieldLower, "cost")

\* hasMinimalContent's loop over the keys still to visit; acc is
\* [meaningfulCount, hasImportantField]
RECURSIVE contentLoop(_, _, _)
contentLoop(rec, keys, acc) ==
    IF keys = {} THEN acc
    ELSE LET key == CHOOSE k \in keys : TRUE
             v == rec[key]
             rest == keys \ {key}
         IN  IF isEmptyValue(v) THEN contentLoop(rec, rest, acc)
             ELSE IF Len(trim(v)) <= 1 THEN contentLoop(rec, rest, acc)
             ELSE IF toLowerCase(trim(v)) \in JunkTokens THEN contentLoop(rec, rest, acc)
             ELSE contentLoop(rec, rest,
                      [meaningfulCount |-> acc.meaningfulCount + 1,
                       hasImportantField |->
                           acc.hasImportantField \/ (isImportantField(key) /\ ~isEmptyValue(v))])

hasMinimalContent_Either(rec) ==
    LET acc == contentLoop(rec, DOMAIN rec, [meaningfulCount |-> 0, hasImportantField |-> FALSE])
    IN  acc.meaningfulCount >= 2 \/ acc.hasImportantField

\* ModernExcelDashboard.tsx hasMinimalContent
hasMinimalContent(rec) ==
    LET acc == contentLoop(rec, DOMAIN rec, [meaningfulCount |-> 0, hasImportantField |-> FALSE])
    IN  acc.meaningfulCount >= 2 /\ acc.hasImportantField

\* filterRecords's importantFields
RankFields == <<"BatchID", "Date", "Amount", "Employee", "Vendor", "Description">>

\* filterRecords's aScore / bScore
RECURSIVE scoreFrom(_, _)
scoreFrom(rec, i) ==
    IF i > Len(RankFields) THEN 0
    ELSE (IF Get(rec, RankFields[i]) \notin {UNDEFINED, NULL, ""}
             /\ ~isEmptyValue(Get(rec, RankFields[i])) THEN 1 ELSE 0)
         + scoreFrom(rec, i + 1)

score(rec) == scoreFrom(rec, 1)

compareRecords_Ascending(a, b) == score(a) - score(b)

\* the comparator of filterRecords: bScore - aScore
compareRecords(a, b) == score(b) - score(a)

\* x put into the sorted array out, behind every element that does not have
\* to come after it (a stable insertion)
RECURSIVE insertSorted(_, _)
insertSorted(out, x) ==
    IF out = <<>> THEN <<x>>
    ELSE IF compareRecords(Head(out), x) <= 0
         THEN <<Head(out)>> \o insertSorted(Tail(out), x)
         ELSE <<x>> \o out

\* Array.prototype.sort with the comparator above; the sort is stable
RECURSIVE sortRecords(_)
sortRecords(arr) ==
    IF arr = <<>> THEN <<>>
    ELSE insertSorted(sortRecords(SubSeq(arr, 1, Len(arr) - 1)), arr[Len(arr)])

\* records.filter(hasMinimalContent): a new array
RECURSIVE filterMinimal(_)
filterMinimal(arr) ==
    IF arr = <<>> THEN <<>>
    ELSE (IF hasMinimalContent(Head(arr)) THEN <<Head(arr)>> ELSE <<>>)
         \o filterMinimal(Tail(arr))

\* ModernExcelDashboard.tsx filterRecords
filterRecords(arr) == sortRecords(filterMinimal(arr))

\* the records handed to hasMinimalContent: at most two fields
ContentRecords ==
    LET keys == {"BatchID", "Notes", "Comment", "Date"}
        values == {"", "B1", "x", "ok", "fine", "tbd", " 0 ", "xy"}
    IN  UNION { [K -> values] : K \in {K \in SUBSET keys : Cardinality(K) <= 2} }

\* the records handed to filterRecords
RankRecords ==
    { ("BatchID" :> "B1") @@ ("Notes" :> "first"),
      ("BatchID" :> "B2") @@ ("Notes" :> "second"),
      ("BatchID" :> "B3") @@ ("Date" :> "2025-01-01") @@ ("Vendor" :> "Acme"),
      ("BatchID" :> "B4") @@ ("Date" :> " 0 ") @@ ("Notes" :> ""),
      ("Notes" :> "ok") @@ ("Comment" :> "fine"),
      ("BatchID" :> "") @@ ("Notes" :> "tbd") }

HasMinimalContent ==
    /\ accepted = <<>>
    /\ accepted' = <<hasMinimalContent(record)>>
    /\ UNCHANGED <<record, valueVars, classifyVars, filterVars, dashVars, hookVars, sourceVars,
                   lookupVars, dateVars>>

FilterRecords ==
    /\ filtered = <<>>
    /\ filtered' = <<filterRecords(records)>>
    /\ UNCHANGED <<records, valueVars, classifyVars, contentVars, dashVars, hookVars, sourceVars,
                   lookupVars, dateVars>>

-----------------------------------------------------------------------------
(* Dates *)

\* days from 1970-01-01 to the civil date y-m-d
DaysFromCivil(y, m, d) ==
    LET yy == IF m <= 2 THEN y - 1 ELSE y
        era == yy \div 400
        yoe == yy - era * 400
        doy == (153 * (m + (IF m > 2 THEN -3 ELSE 9)) + 2) \div 5 + d - 1
        doe == yoe * 365 + yoe \div 4 - yoe \div 100 + doy
    IN  era * 146097 + doe - 719468

AllDigits(s) == \A i \in 1..Len(s) : CharAt(s, i) \in DOMAIN DigitMap

InvalidDate == -1

\* new Date(text) for the date texts of the model: "YYYY-MM-DD" with a month
\* 01-12 and a day 01-28 is midnight UTC of that day, in hours since the
\* epoch; the other texts of the model are invalid dates (the days 29-31 are
\* left out: no text of the model has one)
parseDate(s) ==
    IF /\ Len(s) = 10
       /\ CharAt(s, 5) = "-" /\ CharAt(s, 8) = "-"
       /\ AllDigits(SubSeq(s, 1, 4)) /\ AllDigits(SubSeq(s, 6, 7)) /\ AllDigits(SubSeq(s, 9, 10))
       /\ DigitsValue(SubSeq(s, 6, 7)) \in 1..12
       /\ DigitsValue(SubSeq(s, 9, 10)) \in 1..28
    THEN 24 * DaysFromCivil(DigitsValue(SubSeq(s, 1, 4)), DigitsValue(SubSeq(s, 6, 7)),
                            DigitsValue(SubSeq(s, 9, 10)))
    ELSE InvalidDate

-----------------------------------------------------------------------------
(* Dates of the record cards, ModernExcelDashboard.tsx.  A cell value is a   *)
(* number [number |-> d], d a decimal, a text [string |-> s], or undefined   *)
(* [absent |-> TRUE].  An instant is [day, minute]: the days since the UNIX  *)
(* epoch and the minute of that day, UTC.                                    *)

\* the year, month and day of the day z days after 1970-01-01
CivilFromDays(z) ==
    LET era == (z + 719468) \div 146097
        doe == (z + 719468) - era * 146097
        yoe == (doe - doe \div 1460 + doe \div 36524 - doe \div 146096) \div 365
        doy == doe - (365 * yoe + yoe \div 4 - yoe \div 100)
        mp == (5 * doy + 2) \div 153
        month == IF mp < 10 THEN mp + 3 ELSE mp - 9
    IN  [ year |-> yoe + era * 400 + (IF month <= 2 THEN 1 ELSE 0),
          month |-> month,
          day |-> doy - (153 * mp + 2) \div 5 + 1 ]

\* Math.floor of a decimal
Floor(n) == n.m \div Pow10(n.e)

\* typeof value === 'string' ? parseFloat(value) : value, NaN standing for
\* every value that is no number
numValueOf(v) ==
    IF "string" \in DOMAIN v THEN parseFloat(v.string)
    ELSE IF "number" \in DOMAIN v THEN v.number
    ELSE NaN

\* isExcelDate without the upper end of the range
isExcelDate_Unbounded(v) ==
    /\ numValueOf(v) # NaN
    /\ Gt(numValueOf(v), Num(30000))

\* ModernExcelDashboard.tsx isExcelDate; numValue < 2958466 is decided on the
\* whole part of numValue, which is the same for a whole bound
isExcelDate(v) ==
    /\ numValueOf(v) # NaN
    /\ Gt(numValueOf(v), Num(30000))
    /\ Floor(numValueOf(v)) < 2958466

\* ModernExcelDashboard.tsx isDateString, for the texts of the model: of
\* them only the YYYY-MM-DD texts match a pattern and parse
isDateString(v) ==
    /\ "string" \in DOMAIN v
    /\ parseDate(v.string) # InvalidDate

\* new Date(Date.UTC(1970, 0, 1) + (n - 25569) * 86400 * 1000)
serialInstant(n) ==
    [ day |-> Floor(n) - 25569,
      minute |-> ((n.m % Pow10(n.e)) * 1440) \div Pow10(n.e) ]

\* the date of formatDate; <<>> for an Invalid Date
dateOf(v) ==
    IF "string" \in DOMAIN v
    THEN IF parseFloat(v.string) # NaN /\ Gt(parseFloat(v.string), Num(30000))
         THEN <<serialInstant(parseFloat(v.string))>>
         ELSE IF parseDate(v.string) # InvalidDate
         THEN <<[day |-> parseDate(v.string) \div 24, minute |-> 0]>>
         ELSE <<>>
    ELSE IF "number" \in DOMAIN v THEN <<serialInstant(v.number)>>
    ELSE <<>>

\* the text formatDate returns for a date: the day, and the time if the
\* hours or the minutes are not 0
dateText(date) ==
    LET hours == date.minute \div 60
        minutes == date.minute % 60
        hasTime == hours # 0 \/ minutes # 0
    IN  [ date |-> CivilFromDays(date.day),
          time |-> IF hasTime THEN <<hours, minutes>> ELSE <<>> ]

\* ModernExcelDashboard.tsx formatDate; String(value) for an Invalid Date
formatDate(v) ==
    IF dateOf(v) = <<>>
    THEN [text |-> IF "string" \in DOMAIN v THEN v.string ELSE "undefined"]
    ELSE dateText(dateOf(v)[1])

\* a call of isExcelDate
IsExcelDate ==
    /\ excelDate = <<>>
    /\ excelDate' = <<isExcelDate(cellValue)>>
    /\ UNCHANGED <<cellValue, formatted, valueVars, classifyVars, contentVars, filterVars,
                   dashVars, hookVars, sourceVars, lookupVars>>

\* the cell renderer of a record card, for a cell that is no amount: a cell
\* with isExcelDate(value) || isDateString(value) is shown by formatDate
FormatDate ==
    /\ formatted = <<>>
    /\ isExcelDate(cellValue) \/ isDateString(cellValue)
    /\ formatted' = <<formatDate(cellValue)>>
    /\ UNCHANGED <<cellValue, excelDate, valueVars, classifyVars, contentVars, filterVars,
                   dashVars, hookVars, sourceVars, lookupVars>>

-----------------------------------------------------------------------------
(* Metric aggregators *)

\* a falsy cell: undefined, null or the empty string
Falsy(v) == v \in {UNDEFINED, NULL, ""}

\* sheetsData?.[name]?.rows || []
RECURSIVE rowsOf(_, _)
rowsOf(sd, name) ==
    IF sd = <<>> THEN <<>>
    ELSE IF Head(sd).name = name THEN Head(sd).rows
    ELSE rowsOf(Tail(sd), name)

\* tryFieldNames that goes on to the next candidate when a present field
\* normalizes to 0
RECURSIVE tryFieldNames_SkipsZero(_, _)
tryFieldNames_SkipsZero(row, fieldNames) ==
    IF fieldNames = <<>> THEN Num(0)
    ELSE IF /\ Get(row, Head(fieldNames)) # UNDEFINED
            /\ cleanNumericValue(Get(row, Head(fieldNames))) # Num(0)
         THEN cleanNumericValue(Get(row, Head(fieldNames)))
         ELSE tryFieldNames_SkipsZero(row, Tail(fieldNames))

\* page.tsx tryFieldNames
RECURSIVE tryFieldNames(_, _)
tryFieldNames(row, fieldNames) ==
    IF fieldNames = <<>> THEN Num(0)
    ELSE IF Get(row, Head(fieldNames)) # UNDEFINED
         THEN cleanNumericValue(Get(row, Head(fieldNames)))
         ELSE tryFieldNames(row, Tail(fieldNames))

\* a call of tryFieldNames
TryFieldNames ==
    /\ lookupValue = <<>>
    /\ lookupValue' = <<tryFieldNames(lookupRow, lookupFields)>>
    /\ UNCHANGED <<lookupRow, lookupFields, valueVars, classifyVars, contentVars, filterVars,
                   dashVars, hookVars, sourceVars, dateVars>>

\* parseFloat((num / den * factor).toFixed(places)), den # 0: the quotient
\* rounded to the nearest number with that many decimals, halves away from 0
FixedQuotient(num, den, factor, places) ==
    LET n == num.m * Pow10(den.e) * factor * Pow10(places)
        d == den.m * Pow10(num.e)
        sign == IF (n < 0) # (d < 0) THEN -1 ELSE 1
        an == IF n < 0 THEN -n ELSE n
        ad == IF d < 0 THEN -d ELSE d
    IN  Normalise([m |-> sign * ((2 * an + ad) \div (2 * ad)), e |-> places])

expectedYieldFields == <<"ExpectedYield(kg)", "ExpectedYield", "Expected Yield">>
revisedYieldFields == <<"RevisedYield(kg)", "RevisedYield", "Revised Yield">>
harvestedFields == <<"QtyHarvested(kg)", "QtyHarvested", "Quantity Harvested", "Harvest Qty">>
rejectedFields == <<"Rejected(kg)", "Rejected", "Qty Rejected">>
qcFields == <<"QC", "Quality", "QualityScore">>

\* the predicate with a date after the clock, > for >=
isActive_Strict(row, clock) ==
    /\ ~Falsy(Get(row, "ExpectedHarvest"))
    /\ parseDate(Get(row, "ExpectedHarvest")) # InvalidDate
    /\ parseDate(Get(row, "ExpectedHarvest")) > clock

\* the predicate of batches.filter in calculateProductionMetrics; an invalid
\* date is not >= any date
isActive(row, clock) ==
    /\ ~Falsy(Get(row, "ExpectedHarvest"))
    /\ parseDate(Get(row, "ExpectedHarvest")) # InvalidDate
    /\ parseDate(Get(row, "ExpectedHarvest")) >= clock

\* the batches.filter(...).length of calculateProductionMetrics
RECURSIVE countActive(_, _)
countActive(rows, clock) ==
    IF rows = <<>> THEN 0
    ELSE (IF isActive(Head(rows), clock) THEN 1 ELSE 0) + countActive(Tail(rows), clock)

\* expected || revised
revisedOr_ExpectedFirst(revised, expected) == IF expected # Num(0) THEN expected ELSE revised

\* revised || expected
revisedOr(revised, expected) == IF revised # Num(0) THEN revised ELSE expected

\* the batches.reduce(...) of calculateProductionMetrics, from sum on
RECURSIVE sumExpectedYield(_, _)
sumExpectedYield(rows, sum) ==
    IF rows = <<>> THEN sum
    ELSE sumExpectedYield(Tail(rows),
             Plus(sum, revisedOr(tryFieldNames(Head(rows), revisedYieldFields),
                                 tryFieldNames(Head(rows), expectedYieldFields))))

\* rows.reduce((sum, row) => sum + tryFieldNames(row, fields), sum)
RECURSIVE sumField(_, _, _)
sumField(rows, fields, sum) ==
    IF rows = <<>> THEN sum
    ELSE sumField(Tail(rows), fields, Plus(sum, tryFieldNames(Head(rows), fields)))

\* the returned object with the efficiency fixed to a whole number
productionMetrics_Whole(activeBatches, totalExpectedYield, totalHarvested) ==
    [ activeBatches |-> activeBatches,
      totalExpectedYield |-> totalExpectedYield,
      totalHarvested |-> totalHarvested,
      harvestEfficiency |->
          IF Gt(totalExpectedYield, Num(0))
          THEN FixedQuotient(totalHarvested, totalExpectedYield, 100, 0)
          ELSE Num(0) ]

\* the harvestEfficiency and the returned object of calculateProductionMetrics
productionMetrics(activeBatches, totalExpectedYield, totalHarvested) ==
    [ activeBatches |-> activeBatches,
      totalExpectedYield |-> totalExpectedYield,
      totalHarvested |-> totalHarvested,
      harvestEfficiency |->
          IF Gt(totalExpectedYield, Num(0))
          THEN FixedQuotient(totalHarvested, totalExpectedYield, 100, 1)
          ELSE Num(0) ]

\* page.tsx calculateProductionMetrics
calculateProductionMetrics(sd, clock) ==
    productionMetrics(countActive(rowsOf(sd, "Batches"), clock),
                      sumExpectedYield(rowsOf(sd, "Batches"), Num(0)),
                      sumField(rowsOf(sd, "Harvest_Log"), harvestedFields, Num(0)))

\* if (qc > 0) acc.qcScores.push(qc)
pushPositive(qc) == IF Gt(qc, Num(0)) THEN <<qc>> ELSE <<>>

\* the qcScores of calculateHarvestMetrics
RECURSIVE qcScoresOf(_)
qcScoresOf(rows) ==
    IF rows = <<>> THEN <<>>
    ELSE pushPositive(tryFieldNames(Head(rows), qcFields)) \o qcScoresOf(Tail(rows))

RECURSIVE sumSeq(_)
sumSeq(q) == IF q = <<>> THEN Num(0) ELSE Plus(Head(q), sumSeq(Tail(q)))

\* the count of the rows whose flag is the number 1 however it is written
RECURSIVE countOnTime_Numeric(_)
countOnTime_Numeric(rows) ==
    IF rows = <<>> THEN 0
    ELSE (IF cleanNumericValue(Get(Head(rows), "OnTime(0/1)")) = Num(1) THEN 1 ELSE 0)
         + countOnTime_Numeric(Tail(rows))

\* the postHarvest.filter(...).length of calculateHarvestMetrics
RECURSIVE countOnTime(_)
countOnTime(rows) ==
    IF rows = <<>> THEN 0
    ELSE (IF Get(Head(rows), "OnTime(0/1)") = "1" THEN 1 ELSE 0) + countOnTime(Tail(rows))

\* the rates and the returned object of calculateHarvestMetrics
qualityMetrics(totalHarvested, totalRejected, qcScores, onTimeDeliveries, totalDeliveries) ==
    [ rejectionRate |->
          IF Gt(totalHarvested, Num(0))
          THEN FixedQuotient(totalRejected, totalHarvested, 100, 1)
          ELSE Num(0),
      avgQualityScore |->
          IF Len(qcScores) > 0
          THEN FixedQuotient(sumSeq(qcScores), Num(Len(qcScores)), 1, 1)
          ELSE Num(0),
      onTimePercentage |->
          IF totalDeliveries > 0
          THEN FixedQuotient(Num(onTimeDeliveries), Num(totalDeliveries), 100, 1)
          ELSE Num(0),
      totalDeliveries |-> totalDeliveries,
      onTimeDeliveries |-> onTimeDeliveries,
      totalHarvested |-> totalHarvested ]

\* page.tsx calculateHarvestMetrics
calculateHarvestMetrics(sd) ==
    qualityMetrics(sumField(rowsOf(sd, "Harvest_Log"), harvestedFields, Num(0)),
                   sumField(rowsOf(sd, "Harvest_Log"), rejectedFields, Num(0)),
                   qcScoresOf(rowsOf(sd, "Harvest_Log")),
                   countOnTime(rowsOf(sd, "Post_Harvest")),
                   Len(rowsOf(sd, "Post_Harvest")))

-----------------------------------------------------------------------------
(* Financial detection *)

revenueSearchFields == <<"revenue", "income", "sales">>
expenseSearchFields == <<"expense", "cost", "amount", "outstanding">>
categoryFields == <<"Crop", "Variety", "Type", "Department", "Vendor", "Description">>

\* the predicate of detectFinancialData's headers.filter
isRelevantColumn(header, isRevenue) ==
    /\ ~Falsy(header)
    /\ \E field \in IF isRevenue THEN {revenueSearchFields[i] : i \in 1..3}
                    ELSE {expenseSearchFields[i] : i \in 1..4} :
          \/ Includes(toLowerCase(header), field)
          \/ /\ Includes(header, RUPEE)
             /\ IF isRevenue THEN Includes(toLowerCase(header), "revenue")
                ELSE ~Includes(toLowerCase(header), "revenue")

\* sheetData.headers.filter(...)
RECURSIVE relevantColumns(_, _)
relevantColumns(headers, isRevenue) ==
    IF headers = <<>> THEN <<>>
    ELSE (IF isRelevantColumn(Head(headers), isRevenue) THEN <<Head(headers)>> ELSE <<>>)
         \o relevantColumns(Tail(headers), isRevenue)

\* the truthy category labels of a row
rowCategories(row) ==
    {Get(row, categoryFields[i]) : i \in 1..Len(categoryFields)} \ {UNDEFINED, NULL, ""}

\* the body of relevantColumns.forEach for the cell value of one column; acc
\* is [total, sources, categories, records]
addCell(row, cell, acc) ==
    IF Gt(cell, Num(0))
    THEN [acc EXCEPT !.total = Plus(@, cell),
                     !.records = @ + 1,
                     !.categories = @ \cup rowCategories(row)]
    ELSE acc

\* relevantColumns.forEach(col => ...) for one row
RECURSIVE eachColumn(_, _, _)
eachColumn(row, cols, acc) ==
    IF cols = <<>> THEN acc
    ELSE eachColumn(row, Tail(cols),
                    addCell(row, cleanNumericValue(Get(row, Head(cols))), acc))

\* sheetData.rows.forEach(row => ...)
RECURSIVE eachRow(_, _, _)
eachRow(rows, cols, acc) ==
    IF rows = <<>> THEN acc
    ELSE eachRow(Tail(rows), cols, eachColumn(Head(rows), cols, acc))

\* the body of Object.entries(sheetsData).forEach for one sheet and its
\* relevant columns
scanSheet(sheetData, cols, acc) ==
    IF Len(sheetData.rows) = 0 THEN acc
    ELSE IF Len(cols) > 0
    THEN eachRow(sheetData.rows, cols, [acc EXCEPT !.sources = @ + 1])
    ELSE acc

\* Object.entries(sheetsData).forEach(...)
RECURSIVE eachSheet(_, _, _)
eachSheet(sd, isRevenue, acc) ==
    IF sd = <<>> THEN acc
    ELSE eachSheet(Tail(sd), isRevenue,
                   scanSheet(Head(sd), relevantColumns(Head(sd).headers, isRevenue), acc))

\* the returned object of detectFinancialData
financialData(acc) ==
    [ total |-> acc.total, sources |-> acc.sources,
      categories |-> Cardinality(acc.categories), records |-> acc.records,
      trend |-> "neutral" ]

\* page.tsx detectFinancialData
detectFinancialData(sd, isRevenue) ==
    financialData(eachSheet(sd, isRevenue,
                      [total |-> Num(0), sources |-> 0, categories |-> {}, records |-> 0]))

detectRevenueData(sd) == detectFinancialData(sd, TRUE)
detectExpenseData(sd) == detectFinancialData(sd, FALSE)

\* the returned object with the margin fixed to one decimal
financialMetrics_OneDecimal(revenue, expenses, profit) ==
    [ revenue |-> revenue.total,
      expenses |-> expenses.total,
      profit |-> profit,
      profitMargin |-> IF Gt(revenue.total, Num(0))
                       THEN FixedQuotient(profit, revenue.total, 100, 1)
                       ELSE Num(0),
      revenueStreams |-> revenue.sources,
      expenseCategories |-> expenses.categories ]

\* the profit, the profitMargin and the returned object of
\* calculateFinancialMetrics
financialMetrics(revenue, expenses, profit) ==
    [ revenue |-> revenue.total,
      expenses |-> expenses.total,
      profit |-> profit,
      profitMargin |-> IF Gt(revenue.total, Num(0))
                       THEN FixedQuotient(profit, revenue.total, 100, 2)
                       ELSE Num(0),
      revenueStreams |-> revenue.sources,
      expenseCategories |-> expenses.categories ]

\* page.tsx calculateFinancialMetrics
calculateFinancialMetrics(sd) ==
    financialMetrics(detectRevenueData(sd), detectExpenseData(sd),
                     Minus(detectRevenueData(sd).total, detectExpenseData(sd).total))

-----------------------------------------------------------------------------
(* Dashboard assembler *)

\* the number of sheets taken for the number of records
totalRecordsOf_Sheets(sd) == Len(sd)

\* Object.values(sheetsData).reduce((sum, sheet) => sum + sheet.rows.length, 0)
RECURSIVE totalRecordsOf(_)
totalRecordsOf(sd) ==
    IF sd = <<>> THEN 0 ELSE Len(Head(sd).rows) + totalRecordsOf(Tail(sd))

Card(title, val, type, trend) ==
    [title |-> title, value |-> val, type |-> type, trend |-> trend]

\* the threshold of the Total Harvested card's trend
HarvestEfficiencyPositive == 80
\* the threshold of the Quality Score card's trend
QualityScorePositive == 7
\* the threshold of the On-Time Delivery card's trend
OnTimePositive == 90

\* the six cards of the array literal
fixedCards(production, quality, revenue, expenses, profit) ==
    << Card("Total Revenue", revenue.total, "financial", "neutral"),
       Card("Total Expenses", expenses.total, "financial", "neutral"),
       Card("Net Profit", profit, "financial",
            IF Ge(profit, Num(0)) THEN "positive" ELSE "negative"),
       Card("Active Batches", Num(production.activeBatches), "production", "neutral"),
       Card("Total Harvested", quality.totalHarvested, "production",
            IF Ge(production.harvestEfficiency, Num(HarvestEfficiencyPositive))
            THEN "positive" ELSE "neutral"),
       Card("Quality Score", quality.avgQualityScore, "quality",
            IF Ge(quality.avgQualityScore, Num(QualityScorePositive))
            THEN "positive" ELSE "neutral") >>

\* the card pushed if there are deliveries
logisticsCards(quality) ==
    IF quality.totalDeliveries > 0
    THEN << Card("On-Time Delivery", quality.onTimePercentage, "logistics",
                 IF Ge(quality.onTimePercentage, Num(OnTimePositive))
                 THEN "positive" ELSE "neutral") >>
    ELSE <<>>

\* the cards with the logistics card pushed after the data overview card
summaryCards_LogisticsLast(production, quality, revenue, expenses, totalRecords) ==
    fixedCards(production, quality, revenue, expenses, Minus(revenue.total, expenses.total))
    \o << Card("Total Records", Num(totalRecords), "data", "neutral") >>
    \o logisticsCards(quality)

\* the cards of generateAgriculturalSummaryCards, from the metrics it computes:
\* the six cards, the logistics card, the data overview card
summaryCards(production, quality, revenue, expenses, totalRecords) ==
    fixedCards(production, quality, revenue, expenses, Minus(revenue.total, expenses.total))
    \o logisticsCards(quality)
    \o << Card("Total Records", Num(totalRecords), "data", "neutral") >>

\* page.tsx generateAgriculturalSummaryCards
generateAgriculturalSummaryCards(sd, clock) ==
    summaryCards(calculateProductionMetrics(sd, clock), calculateHarvestMetrics(sd),
                 detectRevenueData(sd), detectExpenseData(sd), totalRecordsOf(sd))

\* the Object.entries(sheetsData).map(...) of sheets
sheetDescriptors(sd) ==
    [ i \in 1..Len(sd) |->
        [ name |-> sd[i].name,
          type |-> detectSheetType(sd[i].name, sd[i].headers),
          records |-> Len(sd[i].rows),
          headers |-> sd[i].headers ] ]

\* the Object.entries(sheetsData).map(...) of sheetsConfig
sheetConfigs(sd) ==
    [ i \in 1..Len(sd) |->
        [ name |-> sd[i].name,
          type |-> detectSheetType(sd[i].name, sd[i].headers),
          recordCount |-> Len(sd[i].rows),
          headers |-> sd[i].headers ] ]

\* the returned object of generateDynamicDashboard
dashboardData(sd, production, quality, financial, revenue, expenses, cards, totalRecords) ==
    [ metadata |-> [ totalSheets |-> Len(sd), totalRecords |-> totalRecords,
                     connectionStatus |-> "connected" ],
      production |-> production,
      quality |-> quality,
      revenue |-> revenue,
      expenses |-> expenses,
      summaryCards |-> cards,
      financial |-> financial,
      financialMetrics |-> financial,
      operationalMetrics |-> [ total |-> totalRecords, active |-> production.activeBatches,
                               completed |-> 0, pending |-> 0, completionRate |-> 0 ],
      sheets |-> sheetDescriptors(sd),
      sheetsConfig |-> sheetConfigs(sd),
      rawData |-> sd ]

\* page.tsx generateDynamicDashboard
generateDynamicDashboard(sd, clock) ==
    dashboardData(sd, calculateProductionMetrics(sd, clock), calculateHarvestMetrics(sd),
                  calculateFinancialMetrics(sd), detectRevenueData(sd), detectExpenseData(sd),
                  generateAgriculturalSummaryCards(sd, clock), totalRecordsOf(sd))

\* the fallbackData of Home's catch block
fallbackData ==
    [ metadata |-> [ totalSheets |-> 0, totalRecords |-> 0,
                     connectionStatus |-> "disconnected" ],
      production |-> [ activeBatches |-> 0, totalExpectedYield |-> Num(0),
                       totalHarvested |-> Num(0), harvestEfficiency |-> Num(0) ],
      quality |-> [ rejectionRate |-> Num(0), avgQualityScore |-> Num(0),
                    onTimePercentage |-> Num(0), totalDeliveries |-> 0,
                    onTimeDeliveries |-> 0, totalHarvested |-> Num(0) ],
      revenue |-> [ total |-> Num(0), sources |-> 0, categories |-> 0, records |-> 0,
                    trend |-> "neutral" ],
      expenses |-> [ total |-> Num(0), sources |-> 0, categories |-> 0, records |-> 0,
                     trend |-> "neutral" ],
      summaryCards |-> << Card("Error Loading Data", Num(0), "error", "neutral") >>,
      financial |-> [ revenue |-> Num(0), expenses |-> Num(0), profit |-> Num(0),
                      profitMargin |-> Num(0), revenueStreams |-> 0,
                      expenseCategories |-> 0 ],
      financialMetrics |-> [ revenue |-> Num(0), expenses |-> Num(0), profit |-> Num(0),
                             profitMargin |-> Num(0), revenueStreams |-> 0,
                             expenseCategories |-> 0 ],
      operationalMetrics |-> [ total |-> 0, active |-> 0, completed |-> 0, pending |-> 0,
                               completionRate |-> 0 ],
      sheets |-> <<>>,
      sheetsConfig |-> <<>>,
      rawData |-> <<>> ]

\* Home without the test of line 442 for a map without sheets
Home_Unchecked ==
    /\ dashboard = <<>>
    /\ dashboard' = << IF settlement # "sheets" THEN fallbackData
                       ELSE generateDynamicDashboard(sheetsData, now) >>
    /\ UNCHANGED <<sheetsData, now, settlement, valueVars, classifyVars, contentVars,
                   filterVars, hookVars, sourceVars, lookupVars, dateVars>>

\* page.tsx Home, given how the race of line 435 settled: a rejection, a
\* value that is no object and a map without sheets throw into the catch block
Home ==
    /\ dashboard = <<>>
    /\ dashboard' = << IF settlement # "sheets" \/ Len(sheetsData) = 0 THEN fallbackData
                       ELSE generateDynamicDashboard(sheetsData, now) >>
    /\ UNCHANGED <<sheetsData, now, settlement, valueVars, classifyVars, contentVars,
                   filterVars, hookVars, sourceVars, lookupVars, dateVars>>

-----------------------------------------------------------------------------
(* Snapshots handed to the page *)

Sheet(name, headers, rows) == [name |-> name, headers |-> headers, rows |-> rows]

\* the rows a sheet parser can emit for the headers: one key per header, the
\* cell of each column drawn from the column's values
RowsOver(headers, cells) ==
    {r \in [{headers[i] : i \in 1..Len(headers)} -> UNION {cells[h] : h \in DOMAIN cells}] :
        \A h \in DOMAIN r : r[h] \in cells[h]}

\* the sheets with the name and headers and at most MaxRows such rows
SheetsOver(name, headers, cells) ==
    {Sheet(name, headers, rows) : rows \in SeqsUpTo(RowsOver(headers, cells), MaxRows)}

\* the snapshot of the financial aggregation example
ExampleSales ==
    << Sheet("Sales", <<"Category", "RevenueAmount">>,
             << ("Category" :> "Sales") @@ ("RevenueAmount" :> RUPEE \o "1,000"),
                ("Category" :> "Sales") @@ ("RevenueAmount" :> RUPEE \o "2,000") >>) >>

\* financial snapshots.  The first tab is the sheet of the aggregation
\* example, a ledger with a revenue and a cost column, a sheet whose header
\* row repeats a header, or a sheet whose headers carry the rupee sign; the
\* second tab is absent, a tab with a revenue column and no row, a tab with
\* an income column, or a tab without amounts.
FinancialSnapshots ==
    LET first ==
            SheetsOver("Sales", <<"Category", "RevenueAmount">>,
                       ("Category" :> {"Sales"})
                       @@ ("RevenueAmount" :> {RUPEE \o "1,000", RUPEE \o "2,000", "-5"}))
            \cup SheetsOver("Ledger", <<"Vendor", "Revenue", "Cost">>,
                       ("Vendor" :> {"Acme", "Bolt", ""})
                       @@ ("Revenue" :> {RUPEE \o "1,000", "0"})
                       @@ ("Cost" :> {"200", "-5"}))
            \cup SheetsOver("Repeated", <<"Revenue", "Revenue">>,
                       ("Revenue" :> {RUPEE \o "1,000", "-5"}))
            \cup SheetsOver("Rupee",
                       <<"Total (" \o RUPEE \o ")", "Revenue (" \o RUPEE \o ")">>,
                       (("Total (" \o RUPEE \o ")") :> {"10", "-5"})
                       @@ (("Revenue (" \o RUPEE \o ")") :> {"30", ""}))
        second ==
            { <<>>,
              << Sheet("Empty", <<"Revenue">>, <<>>) >>,
              << Sheet("Extra", <<"Income", "Type">>,
                       << ("Income" :> "50") @@ ("Type" :> "Retail") >>) >>,
              << Sheet("Notes", <<"Notes">>, << ("Notes" :> "hello") >>) >> }
    IN  {<<f>> \o s : f \in first, s \in second}

\* operations snapshots: each of the tabs Batches, Harvest_Log, Post_Harvest
\* and Books is absent or present with at most MaxRows rows (Books: the books
\* of a profitable or of a loss-making farm); or the snapshot is one tab with
\* the headers of a batch, harvest or logistics tab under another name, or a
\* Batches tab whose rows carry an expected and a revised yield, or tabs with
\* a negative yield or harvest cell, or a Post_Harvest tab with on-time flags
\* written in several ways, with three deliveries, or without the flag column
OperationsSnapshots ==
    LET Optional(sheets) == {<<>>} \cup {<<sh>> : sh \in sheets}
        batches ==
            SheetsOver("Batches", <<"BatchID", "ExpectedHarvest", "ExpectedYield(kg)">>,
                       ("BatchID" :> {"B1"})
                       @@ ("ExpectedHarvest" :> {"2030-01-01"})
                       @@ ("ExpectedYield(kg)" :> {"100", "50kg"}))
        harvests ==
            { sh \in SheetsOver("Harvest_Log", <<"QtyHarvested(kg)", "QC">>,
                                ("QtyHarvested(kg)" :> {"80", "39"}) @@ ("QC" :> {"7", "6"})) :
                \A i \in 1..Len(sh.rows) :
                    (sh.rows[i]["QtyHarvested(kg)"] = "80") <=> (sh.rows[i]["QC"] = "7") }
        logistics ==
            SheetsOver("Post_Harvest", <<"OnTime(0/1)">>, ("OnTime(0/1)" :> {"1", "0"}))
        books ==
            { Sheet("Books", <<"Revenue", "Cost">>,
                    << ("Revenue" :> "1000") @@ ("Cost" :> "200") >>),
              Sheet("Books", <<"Revenue", "Cost">>,
                    << ("Revenue" :> "100") @@ ("Cost" :> "200") >>) }
        revised ==
            SheetsOver("Batches", <<"ExpectedYield(kg)", "RevisedYield(kg)">>,
                       ("ExpectedYield(kg)" :> {"100", ""})
                       @@ ("RevisedYield(kg)" :> {"120", "0", ""}))
        negative ==
            { << Sheet("Batches", <<"ExpectedYield(kg)">>,
                       << ("ExpectedYield(kg)" :> "-5") >>) >>,
              << Sheet("Harvest_Log", <<"QtyHarvested(kg)">>,
                       << ("QtyHarvested(kg)" :> "-5") >>) >>,
              << Sheet("Batches", <<"ExpectedYield(kg)">>,
                       << ("ExpectedYield(kg)" :> "100") >>),
                 Sheet("Harvest_Log", <<"QtyHarvested(kg)">>,
                       << ("QtyHarvested(kg)" :> "80"), ("QtyHarvested(kg)" :> "-5") >>) >> }
        flagged ==
            SheetsOver("Post_Harvest", <<"OnTime(0/1)">>,
                       ("OnTime(0/1)" :> {"1", "1.0", " 1", "yes", "true"}))
        thirds ==
            { << Sheet("Post_Harvest", <<"OnTime(0/1)">>,
                       << ("OnTime(0/1)" :> "1"), ("OnTime(0/1)" :> " 1"),
                          ("OnTime(0/1)" :> "1.0") >>) >>,
              << Sheet("Post_Harvest", <<"Carrier">>, << ("Carrier" :> "1") >>) >> }
        renamed ==
            { << Sheet("Crop Plan", <<"BatchID", "ExpectedHarvest", "ExpectedYield(kg)">>,
                       << ("BatchID" :> "B1") @@ ("ExpectedHarvest" :> "2030-01-01")
                          @@ ("ExpectedYield(kg)" :> "100") >>) >>,
              << Sheet("Picking", <<"QtyHarvested(kg)", "QC">>,
                       << ("QtyHarvested(kg)" :> "80") @@ ("QC" :> "7") >>) >>,
              << Sheet("Dispatch", <<"Packaging", "OnTime(0/1)">>,
                       << ("Packaging" :> "crate") @@ ("OnTime(0/1)" :> "1") >>) >> }
    IN  { b \o h \o l \o f : b \in Optional(batches), h \in Optional(harvests),
                             l \in Optional(logistics), f \in Optional(books) }
        \cup renamed \cup {<<sh>> : sh \in revised} \cup negative
        \cup {<<sh>> : sh \in flagged} \cup thirds

-----------------------------------------------------------------------------
(* The sheet source, lib/googleSheets.ts.  The repository holds two copies  *)
(* of it, src/unnamed/part_005 and src/unnamed/part_006, which differ in    *)
(* getEnv only; library names the copy that is called.  A function that     *)
(* throws yields THROWN, or <<>> where its value is a sequence.             *)
(*                                                                          *)
(* A cell of a worksheet is a text [str |-> s], a number [num |-> n] or     *)
(* absent [absent |-> TRUE]; a tab is [name, values], values being the      *)
(* array of arrays that sheet_to_json and batchGet give for it.             *)

THROWN == "<throws>"

\* getEnv: an unset (or empty) variable throws, but for the spreadsheet id
\* of part_006, which falls back to a published id
getEnv(name) ==
    IF env[name] # "" THEN env[name]
    ELSE IF library = "part_006" /\ name = "GOOGLE_SHEETS_SPREADSHEET_ID"
    THEN "2PACX-1vQFIol8mqUV0RZNQAma8swIP_ecyNrZpYTCqJ_biXF7p6JQncYM9USG8skMORWnWg"
    ELSE THROWN

\* String.prototype.startsWith
startsWith(s, prefix) == Len(s) >= Len(prefix) /\ SubSeq(s, 1, Len(prefix)) = prefix

\* createDemoData
createDemoData ==
    LET Rows(headers, cells) ==
            [r \in 1..Len(cells) |->
                [h \in {headers[i] : i \in 1..Len(headers)} |->
                    cells[r][CHOOSE i \in 1..Len(headers) : headers[i] = h]]]
        Demo(name, headers, cells) == Sheet(name, headers, Rows(headers, cells))
    IN  << Demo("Revenue Tracking", <<"Date", "Source", "Amount", "Category", "Status">>,
             << <<"2025-09-01", "Product Sales", RUPEE \o "125,000", "Sales", "Completed">>,
                <<"2025-09-02", "Service Revenue", RUPEE \o "85,000", "Services", "Completed">>,
                <<"2025-09-03", "Consulting", RUPEE \o "45,000", "Professional", "Pending">>,
                <<"2025-09-04", "License Fees", RUPEE \o "30,000", "Licensing", "Completed">>,
                <<"2025-09-05", "Subscription", RUPEE \o "75,000", "Recurring", "Completed">> >>),
           Demo("Expense Tracking", <<"Date", "Vendor", "Amount", "Category", "Status">>,
             << <<"2025-09-01", "Office Supplies", RUPEE \o "15,000", "Operations", "Paid">>,
                <<"2025-09-02", "Marketing Agency", RUPEE \o "45,000", "Marketing", "Paid">>,
                <<"2025-09-03", "Software Licenses", RUPEE \o "25,000", "Technology", "Pending">>,
                <<"2025-09-04", "Travel Expenses", RUPEE \o "18,000", "Travel", "Paid">>,
                <<"2025-09-05", "Utilities", RUPEE \o "12,000", "Utilities", "Paid">> >>),
           Demo("Production Data", <<"Batch ID", "Product", "Quantity", "Status", "Date">>,
             << <<"BTH-001", "Organic Rice", "500 kg", "Active", "2025-09-01">>,
                <<"BTH-002", "Wheat Flour", "300 kg", "Completed", "2025-09-02">>,
                <<"BTH-003", "Pulses Mix", "200 kg", "Active", "2025-09-03">>,
                <<"BTH-004", "Spice Blend", "150 kg", "Processing", "2025-09-04">>,
                <<"BTH-005", "Organic Oils", "100 L", "Active", "2025-09-05">> >>),
           Demo("Inventory Management",
             <<"Item", "Current Stock", "Minimum Required", "Unit Price", "Status">>,
             << <<"Raw Rice", "2500 kg", "1000 kg", RUPEE \o "45/kg", "In Stock">>,
                <<"Wheat", "1800 kg", "800 kg", RUPEE \o "35/kg", "In Stock">>,
                <<"Packaging Materials", "500 units", "200 units", RUPEE \o "15/unit", "Low Stock">>,
                <<"Labels", "1000 units", "300 units", RUPEE \o "5/unit", "In Stock">>,
                <<"Storage Containers", "150 units", "100 units", RUPEE \o "125/unit", "In Stock">> >>) >>

\* createSheetsClient: throws if a credential is missing
createSheetsClient ==
    IF THROWN \in {getEnv("GOOGLE_SHEETS_CLIENT_EMAIL"), getEnv("GOOGLE_SHEETS_PRIVATE_KEY")}
    THEN THROWN ELSE "client"

\* row[index], undefined past the end of the row
cellAt(row, index) == IF index <= Len(row) THEN row[index] ELSE [absent |-> TRUE]

\* String(cell)
String(cell) == IF "num" \in DOMAIN cell THEN ToString(cell.num) ELSE cell.str

\* header || `col_${index + 1}`, index counted from 0 in the code
columnKey(headers, i) == IF headers[i] # "" THEN headers[i] ELSE "col_" \o ToString(i)

\* the object built by headers.forEach: a later column with the same key
\* overwrites an earlier one
rowObject(headers, text(_)) ==
    [k \in {columnKey(headers, i) : i \in 1..Len(headers)} |->
        LET last == CHOOSE i \in 1..Len(headers) :
                        /\ columnKey(headers, i) = k
                        /\ \A j \in (i + 1)..Len(headers) : columnKey(headers, j) # k
        IN  text(last)]

\* the row limit of fetchPublishedSheet
MAX_CONSECUTIVE_EMPTY == 5

\* fetchPublishedSheet: the cell text and the hasData flag of a row
publishedText(cell) ==
    IF "absent" \in DOMAIN cell THEN ""
    ELSE IF "num" \in DOMAIN cell THEN String(cell)
    ELSE trim(String(cell))

hasData(headers, row) ==
    \E i \in 1..Len(headers) :
        LET cell == cellAt(row, i)
        IN  IF "absent" \in DOMAIN cell THEN FALSE
            ELSE IF "num" \in DOMAIN cell THEN cell.num # 0
            ELSE trim(String(cell)) # ""

\* the loop over the data rows, lines 531-604
RECURSIVE publishedRows(_, _, _, _, _)
publishedRows(headers, jsonData, rowIndex, consecutiveEmptyRows, dataRows) ==
    IF rowIndex > Len(jsonData) THEN dataRows
    ELSE IF hasData(headers, jsonData[rowIndex])
    THEN publishedRows(headers, jsonData, rowIndex + 1, 0,
            Append(dataRows,
                   rowObject(headers, LAMBDA i : publishedText(cellAt(jsonData[rowIndex], i)))))
    ELSE IF consecutiveEmptyRows + 1 >= MAX_CONSECUTIVE_EMPTY THEN dataRows
    ELSE publishedRows(headers, jsonData, rowIndex + 1, consecutiveEmptyRows + 1, dataRows)

\* the body of workbook.SheetNames.forEach, lines 471-613
publishedSheet(tab) ==
    IF Len(tab.values) = 0 THEN Sheet(tab.name, <<>>, <<>>)
    ELSE Sheet(tab.name,
               [i \in 1..Len(tab.values[1]) |-> publishedText(tab.values[1][i])],
               publishedRows([i \in 1..Len(tab.values[1]) |-> publishedText(tab.values[1][i])],
                             tab.values, 2, 0, <<>>))

\* fetchPublishedSheet: <<>> if it throws (neither the direct fetch nor the
\* proxy answers, the response is not ok, or XLSX.read fails)
fetchPublishedSheet ==
    IF (~remote.direct /\ ~remote.proxy) \/ ~remote.ok \/ ~remote.readable THEN <<>>
    ELSE << [i \in 1..Len(remote.tabs) |-> publishedSheet(remote.tabs[i])] >>

\* String(h || "").trim() of the authenticated path
authenticatedHeader(cell) ==
    IF "absent" \in DOMAIN cell \/ cell \in {[str |-> ""], [num |-> 0]} THEN ""
    ELSE trim(String(cell))

\* the body of valueRanges.forEach, lines 332-369
authenticatedSheet(tab) ==
    IF Len(tab.values) = 0 THEN Sheet(tab.name, <<>>, <<>>)
    ELSE LET headers == [i \in 1..Len(tab.values[1]) |-> authenticatedHeader(tab.values[1][i])]
         IN  Sheet(tab.name, headers,
                   [r \in 1..(Len(tab.values) - 1) |->
                       rowObject(headers,
                                 LAMBDA i : IF "absent" \in DOMAIN cellAt(tab.values[r + 1], i)
                                            THEN ""
                                            ELSE String(cellAt(tab.values[r + 1], i)))])

\* the tabs with a title, lines 292-294
titled(tabs) == SelectSeq(tabs, LAMBDA tab : tab.name # "")

\* getAllSheets: [resolved |-> the sheets] or [rejected |-> the message]
getAllSheets ==
    IF getEnv("GOOGLE_SHEETS_SPREADSHEET_ID") = THROWN
    THEN [rejected |-> "Missing env var: GOOGLE_SHEETS_SPREADSHEET_ID"]
    ELSE IF startsWith(getEnv("GOOGLE_SHEETS_SPREADSHEET_ID"), "2PACX")
    THEN [resolved |-> IF fetchPublishedSheet = <<>> THEN createDemoData
                       ELSE fetchPublishedSheet[1]]
    ELSE [resolved |->
            IF createSheetsClient = THROWN \/ remote.api = "get fails" THEN createDemoData
            ELSE IF Len(titled(remote.tabs)) = 0 THEN createDemoData
            ELSE IF remote.api = "batchGet fails" THEN createDemoData
            ELSE [i \in 1..Len(titled(remote.tabs)) |->
                    authenticatedSheet(titled(remote.tabs)[i])]]

\* a call of getAllSheets
GetAllSheets ==
    /\ allSheets = <<>>
    /\ allSheets' = <<getAllSheets>>
    /\ UNCHANGED <<library, env, remote, valueVars, classifyVars, contentVars, filterVars,
                   dashVars, hookVars, lookupVars, dateVars>>

-----------------------------------------------------------------------------
(* Claims about the value normalizer *)

CurrencySymbols == {RUPEE, "$", EURO, POUND, YEN}

\* the text the amount normalizer is said to parse: commas and currency
\* symbols dropped, then a trailing unit "kg" dropped
StrippedAmount(v) ==
    LET t == trimEnd(StripChars(v, {","} \cup CurrencySymbols))
    IN  IF Len(t) >= 2 /\ SubSeq(t, Len(t) - 1, Len(t)) = "kg"
        THEN SubSeq(t, 1, Len(t) - 2)
        ELSE t

\* C2: cleanNumericValue strips every comma, every currency symbol among
\* rupee, dollar, euro, pound, yen and the unit suffix "kg" before parsing, and
\* returns 0 for null, undefined, "" and whatever does not parse.
C2_AmountNormalizer ==
    numeric # <<>> =>
        numeric[1] = IF value \in {NULL, UNDEFINED} THEN Num(0)
                     ELSE LET parsed == parseFloat(StrippedAmount(value))
                          IN  IF parsed = NaN THEN Num(0) ELSE parsed

EmptyTokens == {"", "0", "n/a", "na", "-", "null", "undefined"}

\* C3: isEmptyValue is true for null, undefined and every string that, trimmed
\* and lower-cased, is one of "", "0", "n/a", "na", "-", "null", "undefined",
\* and false for every other string.
C3_EmptyTokens ==
    empty # <<>> =>
        empty[1] = (\/ value \in {NULL, UNDEFINED}
                    \/ /\ value \notin {NULL, UNDEFINED}
                       /\ toLowerCase(trim(value)) \in EmptyTokens)

-----------------------------------------------------------------------------
(* Specifications *)

\* the hook as useState and useRef construct it, before any effect
HookIdle ==
    /\ data = NULL
    /\ loading = TRUE
    /\ error = NULL
    /\ refreshing = FALSE
    /\ connectionStatus = "connecting"
    /\ abortControllerRef = 0
    /\ intervalRef = FALSE
    /\ requests = <<>>
    /\ timers = {}
    /\ mounted = TRUE

\* every part of the program but the active one is left before its call
Idle(active) ==
    /\ IF active = "value" THEN TRUE
       ELSE value = NONE /\ numeric = <<>> /\ empty = <<>>
    /\ IF active = "classify" THEN TRUE
       ELSE sheetName = NONE /\ sheetHeaders = <<>> /\ sheetType = <<>>
    /\ IF active = "content" THEN TRUE ELSE record = <<>> /\ accepted = <<>>
    /\ IF active = "filter" THEN TRUE ELSE records = <<>> /\ filtered = <<>>
    /\ IF active = "page" THEN TRUE
       ELSE sheetsData = <<>> /\ now = 0 /\ dashboard = <<>> /\ settlement = NONE
    /\ IF active = "hook" THEN TRUE ELSE HookIdle
    /\ IF active = "source" THEN TRUE
       ELSE library = NONE /\ env = <<>> /\ remote = <<>> /\ allSheets = <<>>
    /\ IF active = "lookup" THEN TRUE
       ELSE lookupRow = <<>> /\ lookupFields = <<>> /\ lookupValue = <<>>
    /\ IF active = "dates" THEN TRUE
       ELSE cellValue = <<>> /\ excelDate = <<>> /\ formatted = <<>>

InitValue ==
    /\ value \in Values
    /\ numeric = <<>>
    /\ empty = <<>>
    /\ Idle("value")

NextValue == CleanNumericValue \/ IsEmptyValue

\* the value normalizer applied to every cell value of the model
SpecValue == InitValue /\ [][NextValue]_vars

InitClassify ==
    /\ sheetName \in SheetNameInputs
    /\ sheetHeaders \in SeqsUpTo(HeaderInputs, MaxHeaders)
    /\ sheetType = <<>>
    /\ Idle("classify")

NextClassify == DetectSheetType

\* the classifier applied to every sheet name and header row of the model
SpecClassify == InitClassify /\ [][NextClassify]_vars

InitContent ==
    /\ record \in ContentRecords
    /\ accepted = <<>>
    /\ Idle("content")

NextContent == HasMinimalContent

\* hasMinimalContent applied to every record of the model
SpecContent == InitContent /\ [][NextContent]_vars

InitFilter ==
    /\ records \in SeqsUpTo(RankRecords, MaxRecords)
    /\ filtered = <<>>
    /\ Idle("filter")

NextFilter == FilterRecords

\* filterRecords applied to every array of records of the model
SpecFilter == InitFilter /\ [][NextFilter]_vars

\* the rows hold any of the expected-yield fields, each empty, unparseable,
\* zero or an amount; the candidates are a list of page.tsx or no candidate
InitFields ==
    /\ lookupRow \in UNION { [keys -> {"", "n/a", "0", "70", "50kg"}] :
                               keys \in SUBSET {expectedYieldFields[i] : i \in 1..3} }
    /\ lookupFields \in {expectedYieldFields, revisedYieldFields, harvestedFields, <<>>}
    /\ lookupValue = <<>>
    /\ Idle("lookup")

NextFields == TryFieldNames

\* the field lookup applied to rows with some, all or none of the candidates
SpecFields == InitFields /\ [][NextFields]_vars

\* the cells: the numbers about the ends of the serial range, a serial of
\* 2025 and small numbers, each whole or with a half or a quarter of a day,
\* that serial with 43 and with 86 seconds, the same as texts, dates as
\* texts, other texts, and undefined
InitDates ==
    /\ cellValue \in
         { [number |-> Normalise([m |-> whole * 100 + part, e |-> 2])] :
             whole \in {0, 5, 25569, 30000, 30001, 45901, 2958465, 2958466, 3000000},
             part \in {0, 50, 25} }
         \cup { [number |-> [m |-> 459010005, e |-> 4]], [number |-> [m |-> 45901001, e |-> 3]] }
         \cup { [string |-> s] :
                  s \in {"45901", "45901.5", "45901.001", "45901.0005", "30000", "30000.5",
                         "2958465.5", "2958466", "3000000", "45901 kg", "12",
                         "2025-09-01", "1999-12-31", "hello", ""} }
         \cup { [absent |-> TRUE] }
    /\ excelDate = <<>>
    /\ formatted = <<>>
    /\ Idle("dates")

NextDates == IsExcelDate \/ FormatDate

\* the date helpers applied to every cell of the model
SpecDates == InitDates /\ [][NextDates]_vars

InitSheets ==
    LET str(s) == [str |-> s]
        num(n) == [num |-> n]
        absent == [absent |-> TRUE]
        Tab(name, values) == [name |-> name, values |-> values]
        tabs ==
            { Tab("Sales", << <<str("Item"), str(" Amount ")>>,
                              <<str("Rice"), num(120)>>,
                              <<str(" "), num(0)>>,
                              <<str("Wheat")>> >>),
              Tab("Blank", << <<str(""), absent, num(0)>>,
                              <<num(7), str("x"), str("y")>> >>),
              Tab("Empty", <<>>),
              Tab("", << <<str("A")>>, <<str("1")>> >>) }
        \* a tab with a run of four and a run of five rows without data, and
        \* a tab whose header row repeats a name
        long ==
            { Tab("Gaps", << <<str("Item"), str("Qty")>>,
                             <<str("Rice"), num(120)>>,
                             <<str(" "), num(0)>>, <<absent, str("")>>,
                             <<num(0), num(0)>>, <<str(""), absent>>,
                             <<str("0"), num(0)>>,
                             <<str(""), str("")>>, <<num(0), str(" ")>>,
                             <<absent, absent>>, <<str(""), num(0)>>,
                             <<str(" "), str(" ")>>,
                             <<str("Maize"), num(30)>> >>),
              Tab("Twice", << <<str("Revenue"), str("Revenue")>>,
                              <<num(10), num(20)>> >>) }
    IN  /\ library \in {"part_005", "part_006"}
        /\ env \in [ GOOGLE_SHEETS_SPREADSHEET_ID : {"", "2PACX-1vR", "1AbCdEf"},
                      GOOGLE_SHEETS_CLIENT_EMAIL : {"", "svc@triton.example"},
                      GOOGLE_SHEETS_PRIVATE_KEY : {"", "key"} ]
        /\ remote \in [ direct : BOOLEAN, proxy : BOOLEAN, ok : BOOLEAN, readable : BOOLEAN,
                         api : {"ok", "get fails", "batchGet fails"},
                         tabs : {<<>>} \cup {<<t>> : t \in tabs \cup long}
                                \cup {<<t, u>> : t \in tabs, u \in tabs} ]
        /\ allSheets = <<>>
        /\ Idle("source")

NextSheets == GetAllSheets

\* getAllSheets of either copy under every configuration and answer of the model
SpecSheets == InitSheets /\ [][NextSheets]_vars

-----------------------------------------------------------------------------
(* Claims about the sheet classifier *)

Range(f) == {f[i] : i \in DOMAIN f}

ClaimedOrder ==
    << "production-batches", "harvest-tracking", "sourcing-procurement",
       "post-harvest-logistics", "financial-revenue", "financial-expense",
       "production-settings" >>

EntryOf(type) == CHOOSE c \in Range(SHEET_TYPE_CONFIG) : c.type = type

\* some keyword is in the upper-cased name, or some header substring is in
\* some header
EntryMatches(type, name, headers) ==
    \/ \E kw \in Range(EntryOf(type).keywords) : Includes(toUpperCase(name), kw)
    \/ \E hs \in Range(EntryOf(type).headers) : \E h \in Range(headers) : Includes(h, hs)

\* C1: detectSheetType returns the first entry, in the declared order, that
\* the name or some header matches, and 'general' exactly when none matches;
\* "Batch_Revenue" with [BatchID, Revenue] is production-batches.
C1_FirstMatchWins ==
    sheetType # <<>> =>
        LET matching == {i \in 1..Len(ClaimedOrder) :
                             EntryMatches(ClaimedOrder[i], sheetName, sheetHeaders)}
        IN  /\ (sheetType[1] = "general") <=> (matching = {})
            /\ matching # {} =>
                 sheetType[1] = ClaimedOrder[CHOOSE i \in matching :
                                                 \A j \in matching : i <= j]
            /\ (sheetName = "Batch_Revenue" /\ sheetHeaders = <<"BatchID", "Revenue">>)
                 => sheetType[1] = "production-batches"

\* the sheet of the claim's example has been classified
C1_Witness ==
    /\ sheetName = "Batch_Revenue"
    /\ sheetHeaders = <<"BatchID", "Revenue">>
    /\ sheetType = <<"production-batches">>

-----------------------------------------------------------------------------
(* Claims about the record quality filter *)

ImportantKeywords == {"id", "name", "amount", "qty", "price", "cost"}

\* the field name contains one of the keywords or an entry of the
\* important-field list
ImportantName(key) ==
    \E w \in ImportantKeywords \cup {toLowerCase(f) : f \in Range(ContentImportantFields)} :
        Includes(toLowerCase(key), w)

\* non-empty per isEmptyValue and not a junk token
NotEmptyNotJunk(v) == ~isEmptyValue(v) /\ toLowerCase(trim(v)) \notin JunkTokens

\* the same, and longer than one character once trimmed
Meaningful(v) == NotEmptyNotJunk(v) /\ Len(trim(v)) > 1

ExampleNotes == ("Notes" :> "ok") @@ ("Comment" :> "fine")
ExampleBatch == ("BatchID" :> "B1") @@ ("Notes" :> "x")
ExampleBatchLong == ("BatchID" :> "B1") @@ ("Notes" :> "xy")

PresentCount(rec) ==
    Cardinality({f \in Range(RankFields) : f \in DOMAIN rec /\ ~isEmptyValue(rec[f])})

\* the accepted records of arr with the given count, in their order in arr
AcceptedWith(arr, count) ==
    LET Test(r) == hasMinimalContent(r) /\ PresentCount(r) = count
    IN  SelectSeq(arr, Test)

\* the accepted records by descending count, each group in its original order
RECURSIVE RankedFrom(_, _)
RankedFrom(arr, count) ==
    IF count < 0 THEN <<>>
    ELSE AcceptedWith(arr, count) \o RankedFrom(arr, count - 1)

\* C5: filterRecords returns exactly the accepted records, ordered by
\* non-increasing count of the ranking fields present and non-empty, records
\* of equal count in their original order, and leaves its input unchanged.
C5_StableRank ==
    /\ [](filtered # <<>> => filtered[1] = RankedFrom(records, Len(RankFields)))
    /\ [][records' = records]_vars

\* an array whose second record outranks the first and ties with none, while
\* the first and third tie, has been filtered
C5_Witness ==
    /\ Len(records) = 3
    /\ filtered # <<>>
    /\ Len(filtered[1]) = 3
    /\ filtered[1][1] = records[2]
    /\ filtered[1][2] = records[1]
    /\ filtered[1][3] = records[3]
    /\ records[1] # records[3]
    /\ PresentCount(records[1]) = PresentCount(records[3])
    /\ PresentCount(records[2]) > PresentCount(records[1])

\* the page is rendered on 2025-06-01T00:00Z
InitDashboard ==
    /\ \/ settlement = "sheets" /\ sheetsData \in FinancialSnapshots \cup OperationsSnapshots
       \/ settlement \in {"null", "undefined", "string", "timeout", "rejected"}
          /\ sheetsData = <<>>
    /\ now = 24 * DaysFromCivil(2025, 6, 1)
    /\ dashboard = <<>>
    /\ Idle("page")

NextDashboard == Home

\* the page rendered from every snapshot of the model
SpecDashboard == InitDashboard /\ [][NextDashboard]_vars

\* a second request of the page with a carry-over: the records of the first
\* run are counted again
Rerender_Carried ==
    /\ Len(dashboard) = 1
    /\ dashboard' =
         Append(dashboard,
                [generateDynamicDashboard(sheetsData, now) EXCEPT
                    !.operationalMetrics.total = @ + dashboard[1].operationalMetrics.total])
    /\ UNCHANGED <<sheetsData, now, settlement, valueVars, classifyVars, contentVars,
                   filterVars, hookVars, sourceVars, lookupVars, dateVars>>

\* a second request of the page: Home runs again on the same snapshot
Rerender ==
    /\ Len(dashboard) = 1
    /\ dashboard' = Append(dashboard, generateDynamicDashboard(sheetsData, now))
    /\ UNCHANGED <<sheetsData, now, settlement, valueVars, classifyVars, contentVars,
                   filterVars, hookVars, sourceVars, lookupVars, dateVars>>

InitRerender ==
    /\ settlement = "sheets"
    /\ sheetsData \in {sd \in OperationsSnapshots : Len(sd) = 4}
    /\ now = 24 * DaysFromCivil(2025, 6, 1)
    /\ dashboard = <<>>
    /\ Idle("page")

NextRerender == Home \/ Rerender

\* the page requested twice for the snapshots with the four tabs
SpecRerender == InitRerender /\ [][NextRerender]_vars

\* the instants new Date() gives in the model: midnight UTC of 2020-01-01,
\* that of 2025-06-01, an hour later, and midnight UTC of 2031-01-01
Clocks ==
    { 24 * DaysFromCivil(2020, 1, 1), 24 * DaysFromCivil(2025, 6, 1),
      24 * DaysFromCivil(2025, 6, 1) + 1, 24 * DaysFromCivil(2031, 1, 1) }

\* time passes between two requests of the page
Advance ==
    /\ Len(dashboard) = 1
    /\ now' \in {t \in Clocks : t > now}
    /\ UNCHANGED <<sheetsData, dashboard, settlement, valueVars, classifyVars, contentVars,
                   filterVars, hookVars, sourceVars, lookupVars, dateVars>>

\* a Batches tab whose rows have a past, a present or a future expected
\* harvest, none, or one that is no date, or no such column
InitClock ==
    /\ settlement = "sheets"
    /\ sheetsData \in
         {<<sh>> : sh \in SheetsOver("Batches", <<"BatchID", "ExpectedHarvest">>,
                       ("BatchID" :> {"B1"})
                       @@ ("ExpectedHarvest" :>
                              {"2030-01-01", "2025-06-01", "2020-01-01", "", "soon"}))}
         \cup { << Sheet("Batches", <<"BatchID">>, << ("BatchID" :> "B1") >>) >> }
    /\ now \in Clocks
    /\ dashboard = <<>>
    /\ Idle("page")

NextClock == Home \/ Advance \/ Rerender

\* the page requested twice, the clock advancing in between
SpecClock == InitClock /\ [][NextClock]_vars

-----------------------------------------------------------------------------
(* Claims about the financial detection *)

\* the page was rendered from a snapshot with sheets
Rendered == dashboard # <<>> /\ Len(sheetsData) > 0

\* C6: no column header is selected as relevant by both the revenue and the
\* expense detection, for every scanned sheet (one with rows) of every
\* snapshot, so that no cell is added to both totals.
C6_ExclusiveColumns ==
    Rendered =>
        \A i \in 1..Len(sheetsData) :
            Len(sheetsData[i].rows) > 0 =>
            Range(relevantColumns(sheetsData[i].headers, TRUE))
            \cap Range(relevantColumns(sheetsData[i].headers, FALSE)) = {}

\* a header that matches the revenue keywords
RevenueMatch(header) ==
    \E w \in {"revenue", "income", "sales"} : Includes(toLowerCase(header), w)

\* <<sheet, row, header position>> of every cell in a revenue-matching column
RevenueCells(sd) ==
    UNION { { <<i, r, j>> : r \in 1..Len(sd[i].rows),
                            j \in {k \in 1..Len(sd[i].headers) :
                                      RevenueMatch(sd[i].headers[k])} } :
            i \in 1..Len(sd) }

CellAmount(sd, c) == cleanNumericValue(Get(sd[c[1]].rows[c[2]], sd[c[1]].headers[c[3]]))

RECURSIVE SumCells(_, _)
SumCells(sd, cells) ==
    IF cells = {} THEN Num(0)
    ELSE LET c == CHOOSE x \in cells : TRUE
         IN  Plus(CellAmount(sd, c), SumCells(sd, cells \ {c}))

\* the labels of the row under the given fields that are not empty
Labels(row, fields) == {Get(row, f) : f \in fields} \ {UNDEFINED, NULL, ""}

\* C7: total is the sum of the normalized cells of all
\* revenue-matching columns, sources >= 1 whenever some sheet has such a
\* column, categories is the number of distinct category labels on rows with
\* a nonzero matched amount; the example sheet gives 3000, >= 1 and 1.
C7_RevenueTotals ==
    Rendered =>
        LET rev == dashboard[1].revenue
            cells == RevenueCells(sheetsData)
        IN  /\ rev.total = SumCells(sheetsData, cells)
            /\ (\E i \in 1..Len(sheetsData) : \E j \in 1..Len(sheetsData[i].headers) :
                    RevenueMatch(sheetsData[i].headers[j])) => rev.sources >= 1
            /\ rev.categories =
                 Cardinality(UNION { Labels(sheetsData[c[1]].rows[c[2]],
                                            Range(categoryFields) \cup {"Category"}) :
                                     c \in {x \in cells : CellAmount(sheetsData, x) # Num(0)} })
            /\ sheetsData = ExampleSales =>
                 rev.total = Num(3000) /\ rev.sources >= 1 /\ rev.categories = 1

PositiveCells(sd) == {c \in RevenueCells(sd) : Gt(CellAmount(sd, c), Num(0))}

\* what the revenue detection is found to compute: total is the sum of the
\* normalized cells that are greater than 0, over every row and every
\* revenue-matching header entry of every sheet; sources is the number of
\* sheets with at least one row and one such column; categories is the
\* number of distinct non-empty values of Crop, Variety, Type, Department,
\* Vendor, Description on rows with a matched amount greater than 0; the
\* example sheet gives total 3000, sources 1 and categories 0.
RevenueTotalsComputed ==
    Rendered =>
        LET rev == dashboard[1].revenue
        IN  /\ rev.total = SumCells(sheetsData, PositiveCells(sheetsData))
            /\ rev.sources =
                 Cardinality({i \in 1..Len(sheetsData) :
                                /\ Len(sheetsData[i].rows) > 0
                                /\ \E j \in 1..Len(sheetsData[i].headers) :
                                       RevenueMatch(sheetsData[i].headers[j])})
            /\ rev.categories =
                 Cardinality(UNION { Labels(sheetsData[c[1]].rows[c[2]], Range(categoryFields)) :
                                     c \in PositiveCells(sheetsData) })
            /\ sheetsData = ExampleSales =>
                 rev.total = Num(3000) /\ rev.sources = 1 /\ rev.categories = 0

-----------------------------------------------------------------------------
(* Claims about the summary cards *)

Titles(cards) == [i \in 1..Len(cards) |-> cards[i].title]

BaseTitles ==
    << "Total Revenue", "Total Expenses", "Net Profit", "Active Batches",
       "Total Harvested", "Quality Score" >>

\* C8: the cards are Total Revenue, Total Expenses, Net Profit, Active
\* Batches, Total Harvested, Quality Score, then On-Time Delivery if and only
\* if totalDeliveries > 0, then Total Records last: 7 cards or 8.
C8_CardOrder ==
    Rendered =>
        LET d == dashboard[1]
        IN  /\ Titles(d.summaryCards) =
                 BaseTitles
                 \o (IF d.quality.totalDeliveries > 0 THEN <<"On-Time Delivery">> ELSE <<>>)
                 \o <<"Total Records">>
            /\ Len(d.summaryCards) = IF d.quality.totalDeliveries = 0 THEN 7 ELSE 8

\* a snapshot with deliveries was rendered into 8 cards
C8_Witness ==
    /\ Rendered
    /\ dashboard[1].quality.totalDeliveries > 0
    /\ Len(dashboard[1].summaryCards) = 8
    /\ dashboard[1].summaryCards[7].title = "On-Time Delivery"

TrendOf(cards, title) == (CHOOSE c \in Range(cards) : c.title = title).trend

\* the decimal x is at least the integer n
AtLeast(x, n) == x.m >= n * Pow10(x.e)

Positive(condition) == IF condition THEN "positive" ELSE "neutral"

\* C9: Net Profit is positive iff profit >= 0 and negative otherwise; Total
\* Harvested is positive iff harvestEfficiency >= 80, Quality Score iff
\* avgQualityScore >= 7, On-Time Delivery iff onTimePercentage >= 90, each
\* neutral otherwise; the other four cards are always neutral.
C9_CardTrends ==
    Rendered =>
        LET d == dashboard[1]
            cards == d.summaryCards
        IN  /\ TrendOf(cards, "Net Profit") =
                 IF AtLeast(d.financial.profit, 0) THEN "positive" ELSE "negative"
            /\ TrendOf(cards, "Total Harvested") =
                 Positive(AtLeast(d.production.harvestEfficiency, 80))
            /\ TrendOf(cards, "Quality Score") =
                 Positive(AtLeast(d.quality.avgQualityScore, 7))
            /\ \A c \in Range(cards) :
                 /\ c.title = "On-Time Delivery" =>
                      c.trend = Positive(AtLeast(d.quality.onTimePercentage, 90))
                 /\ c.title \in {"Total Revenue", "Total Expenses", "Active Batches",
                                 "Total Records"} => c.trend = "neutral"

\* a loss-making snapshot whose harvest efficiency is exactly 80 and whose
\* deliveries are all on time was rendered
C9_Witness ==
    /\ Rendered
    /\ dashboard[1].production.harvestEfficiency = Num(80)
    /\ TrendOf(dashboard[1].summaryCards, "Total Harvested") = "positive"
    /\ TrendOf(dashboard[1].summaryCards, "Net Profit") = "negative"
    /\ dashboard[1].quality.totalDeliveries > 0
    /\ TrendOf(dashboard[1].summaryCards, "On-Time Delivery") = "positive"

-----------------------------------------------------------------------------
(* The refresh hook, src/lib/useRealTimeSheetsData.ts                      *)
(*                                                                         *)
(* A call of fetchData runs from its first line to the await of fetch      *)
(* in one step (StartFetch); the request is then "pending" until the       *)
(* network answers (FetchSucceed, FetchFail) or its signal is aborted.     *)
(* An aborted request is "aborted" until its rejection is delivered to     *)
(* the awaiting call (AbortDelivered); that delivery is a microtask, so    *)
(* it runs before any other event.  A call that returned is "succeeded"    *)
(* (with the payload it stored as its result), "failed" or "cancelled",    *)
(* by the path it left fetchData on.                                       *)
(* React drops the state updates of an unmounted component; the refs are   *)
(* plain objects and are still written.                                    *)

\* the option defaults
refreshInterval == 30000
enableAutoRefresh == TRUE
retryAttempts == 3
retryDelay == 1000

\* the number of fetchData calls a behaviour may make
MaxFetches == 4

\* result.data of a successful answer
Payloads == {"snapshot1", "snapshot2"}

\* the message of the AbortError that fetch rejects with
AbortMessage == "The user aborted a request."

\* the messages of the errors thrown for an answer that is not ok and for an
\* answer without success
FailureMessages == {"HTTP 500: Internal Server Error", "Failed to fetch data"}

\* a state setter: the update is dropped once the component unmounted
SetState(old, new) == IF mounted THEN new ELSE old

Pending == {i \in 1..Len(requests) : requests[i].state = "pending"}
Aborted == {i \in 1..Len(requests) : requests[i].state = "aborted"}

\* controller.abort() on the requests rs
abort(rs) ==
    [i \in 1..Len(requests) |->
        IF i \in rs /\ requests[i].state = "pending"
        THEN [requests[i] EXCEPT !.state = "aborted"]
        ELSE requests[i]]

\* fetchData lines 89-120: the flags, the abort of the controller in the
\* ref, the new controller and the request sent with its signal
StartFetch(isRefresh, attempt) ==
    /\ Len(requests) < MaxFetches
    /\ loading' = IF ~isRefresh THEN SetState(loading, TRUE) ELSE loading
    /\ refreshing' = IF isRefresh THEN SetState(refreshing, TRUE) ELSE refreshing
    /\ connectionStatus' = SetState(connectionStatus, "connecting")
    /\ error' = SetState(error, NULL)
    /\ requests' =
         Append(IF abortControllerRef # 0 THEN abort({abortControllerRef}) ELSE requests,
                [isRefresh |-> isRefresh, attempt |-> attempt, state |-> "pending",
                 result |-> NULL])
    /\ abortControllerRef' = Len(requests) + 1

\* fetchData lines 180-185; the call id returns with this outcome
Finally(id, outcome, result) ==
    /\ loading' = SetState(loading, FALSE)
    /\ refreshing' = SetState(refreshing, FALSE)
    /\ abortControllerRef' = 0
    /\ requests' = [requests EXCEPT ![id].state = outcome, ![id].result = result]

\* fetchData with a retry after the last attempt too
Catch_RetryAfterLast(id, message) ==
    LET call == requests[id]
    IN  /\ IF Includes(message, "aborted")
           THEN UNCHANGED <<error, connectionStatus, timers>>
           ELSE IF call.attempt <= retryAttempts
           THEN /\ timers' = timers \cup
                        {[ of |-> id, isRefresh |-> call.isRefresh,
                           attempt |-> call.attempt + 1,
                           delay |-> retryDelay * 2^(call.attempt - 1) ]}
                /\ UNCHANGED <<error, connectionStatus>>
           ELSE /\ error' = SetState(error, message)
                /\ connectionStatus' = SetState(connectionStatus, "disconnected")
                /\ UNCHANGED timers
        /\ Finally(id, IF Includes(message, "aborted") THEN "cancelled" ELSE "failed", NULL)
        /\ UNCHANGED data

\* fetchData with a catch block that clears the data on the final failure
Catch_ClearsData(id, message) ==
    LET call == requests[id]
    IN  /\ IF Includes(message, "aborted")
           THEN UNCHANGED <<error, connectionStatus, timers, data>>
           ELSE IF call.attempt < retryAttempts
           THEN /\ timers' = timers \cup
                        {[ of |-> id, isRefresh |-> call.isRefresh,
                           attempt |-> call.attempt + 1,
                           delay |-> retryDelay * 2^(call.attempt - 1) ]}
                /\ UNCHANGED <<error, connectionStatus, data>>
           ELSE /\ error' = SetState(error, message)
                /\ connectionStatus' = SetState(connectionStatus, "disconnected")
                /\ data' = SetState(data, NULL)
                /\ UNCHANGED timers
        /\ Finally(id, IF Includes(message, "aborted") THEN "cancelled" ELSE "failed", NULL)

\* fetchData with a catch block that reports no final failure
Catch_Silent(id, message) ==
    LET call == requests[id]
    IN  /\ IF Includes(message, "aborted") \/ call.attempt >= retryAttempts
           THEN UNCHANGED <<error, connectionStatus, timers>>
           ELSE /\ timers' = timers \cup
                        {[ of |-> id, isRefresh |-> call.isRefresh,
                           attempt |-> call.attempt + 1,
                           delay |-> retryDelay * 2^(call.attempt - 1) ]}
                /\ UNCHANGED <<error, connectionStatus>>
        /\ Finally(id, IF Includes(message, "aborted") THEN "cancelled" ELSE "failed", NULL)
        /\ UNCHANGED data

\* fetchData lines 148-185: the call id caught an error with this message
Catch(id, message) ==
    LET call == requests[id]
    IN  /\ IF Includes(message, "aborted")
           THEN UNCHANGED <<error, connectionStatus, timers>>
           ELSE IF call.attempt < retryAttempts
           THEN /\ timers' = timers \cup
                        {[ of |-> id, isRefresh |-> call.isRefresh,
                           attempt |-> call.attempt + 1,
                           delay |-> retryDelay * 2^(call.attempt - 1) ]}
                /\ UNCHANGED <<error, connectionStatus>>
           ELSE /\ error' = SetState(error, message)
                /\ connectionStatus' = SetState(connectionStatus, "disconnected")
                /\ UNCHANGED timers
        /\ Finally(id, IF Includes(message, "aborted") THEN "cancelled" ELSE "failed", NULL)
        /\ UNCHANGED data

\* the initial data load effect, lines 202-205, together with the set-up
\* of the interval by the effect of lines 212-227
InitialLoad ==
    /\ requests = <<>>
    /\ mounted
    /\ StartFetch(FALSE, 1)
    /\ intervalRef' = (enableAutoRefresh /\ refreshInterval > 0)
    /\ UNCHANGED <<data, timers, mounted, valueVars, classifyVars, contentVars, filterVars, dashVars, sourceVars,
                   lookupVars, dateVars>>

\* a tick of the interval that finds neither flag set, lines 220-224 (a tick
\* that finds one set only logs)
AutoRefreshTick ==
    /\ intervalRef
    /\ Aborted = {}
    /\ ~loading /\ ~refreshing
    /\ StartFetch(TRUE, 1)
    /\ UNCHANGED <<data, timers, mounted, intervalRef, valueVars, classifyVars, contentVars, filterVars, dashVars, sourceVars,
                   lookupVars, dateVars>>

\* refreshData, lines 193-195
ManualRefresh ==
    /\ requests # <<>>
    /\ mounted
    /\ Aborted = {}
    /\ StartFetch(TRUE, 1)
    /\ UNCHANGED <<data, timers, mounted, intervalRef, valueVars, classifyVars, contentVars, filterVars, dashVars, sourceVars,
                   lookupVars, dateVars>>

\* the callback of a setTimeout of line 169 runs
RetryFire ==
    /\ Aborted = {}
    /\ \E t \in timers :
        /\ timers' = timers \ {t}
        /\ StartFetch(t.isRefresh, t.attempt)
    /\ UNCHANGED <<data, mounted, intervalRef, valueVars, classifyVars, contentVars, filterVars, dashVars, sourceVars,
                   lookupVars, dateVars>>

\* a pending request is answered with success, lines 122-146 and 180-185
FetchSucceed ==
    /\ Aborted = {}
    /\ \E id \in Pending, payload \in Payloads :
        /\ data' = SetState(data, payload)
        /\ connectionStatus' = SetState(connectionStatus, "connected")
        /\ error' = SetState(error, NULL)
        /\ Finally(id, "succeeded", payload)
    /\ UNCHANGED <<timers, mounted, intervalRef, valueVars, classifyVars, contentVars, filterVars, dashVars, sourceVars,
                   lookupVars, dateVars>>

\* a pending request fails, or is answered without success
FetchFail ==
    /\ Aborted = {}
    /\ \E id \in Pending, message \in FailureMessages : Catch(id, message)
    /\ UNCHANGED <<mounted, intervalRef, valueVars, classifyVars, contentVars, filterVars, dashVars, sourceVars,
                   lookupVars, dateVars>>

\* the rejection of an aborted request reaches the call that awaits it
AbortDelivered ==
    /\ \E id \in Aborted : Catch(id, AbortMessage)
    /\ UNCHANGED <<mounted, intervalRef, valueVars, classifyVars, contentVars, filterVars, dashVars, sourceVars,
                   lookupVars, dateVars>>

\* the component unmounts: the cleanups of lines 230-236 and 245-255
Unmount ==
    /\ requests # <<>>
    /\ mounted
    /\ Aborted = {}
    /\ mounted' = FALSE
    /\ requests' = IF abortControllerRef # 0 THEN abort({abortControllerRef}) ELSE requests
    /\ intervalRef' = FALSE
    /\ UNCHANGED <<data, loading, error, refreshing, connectionStatus,
                   abortControllerRef, timers, valueVars, classifyVars, contentVars, filterVars, dashVars, sourceVars,
                   lookupVars, dateVars>>

InitHook ==
    /\ HookIdle
    /\ Idle("hook")

NextHook ==
    \/ InitialLoad
    \/ AutoRefreshTick
    \/ ManualRefresh
    \/ RetryFire
    \/ FetchSucceed
    \/ FetchFail
    \/ AbortDelivered
    \/ Unmount

\* the hook under every interleaving of its events
SpecHook == InitHook /\ [][NextHook]_vars

\* the fetches that the open chains may still make: the retries after each
\* pending request, but the one in the ref, which a new fetch aborts, and
\* after each scheduled retry
RECURSIVE Owed(_)
Owed(open) ==
    IF open = {} THEN 0
    ELSE LET o == CHOOSE x \in open : TRUE
         IN  (retryAttempts - o.attempt) + Owed(open \ {o})

\* a new chain is started only while it and the open chains can be retried
\* to their end within MaxFetches calls
Room ==
    Len(requests) + retryAttempts
    + Owed({[id |-> i, attempt |-> requests[i].attempt] : i \in Pending \ {abortControllerRef}})
    + Owed({[id |-> t.of, attempt |-> t.attempt - 1] : t \in timers})
    <= MaxFetches

NextHookLive ==
    \/ InitialLoad
    \/ Room /\ AutoRefreshTick
    \/ Room /\ ManualRefresh
    \/ RetryFire
    \/ FetchSucceed
    \/ FetchFail
    \/ AbortDelivered
    \/ Unmount

\* the hook when the effect of the initial load runs, every request is
\* answered, every rejection is delivered and every timer fires
SpecHookLive ==
    /\ InitHook
    /\ [][NextHookLive]_vars
    /\ WF_vars(InitialLoad)
    /\ WF_vars(FetchSucceed \/ FetchFail)
    /\ WF_vars(AbortDelivered)
    /\ WF_vars(RetryFire)

-----------------------------------------------------------------------------
(* Claims about the refresh hook *)

\* C10: at most one fetch request is in flight at any time.
C10_SingleFlight == Cardinality(Pending) <= 1

\* the call id leaves fetchData through its catch block with an error that
\* is not an abort, in this step
Fails(id) == requests[id].state = "pending" /\ requests'[id].state = "failed"

\* the timer that the failure of attempt k of the call id schedules
RetryOf(id, k) ==
    [of |-> id, isRefresh |-> requests[id].isRefresh, attempt |-> k + 1,
     delay |-> IF k = 1 THEN 1000 ELSE 2000]

\* C11: a fetch chain makes at most retryAttempts (3) attempts.  When
\* attempt k < retryAttempts fails with an error that is not an abort, attempt
\* k + 1 is scheduled after retryDelay * 2^(k-1) ms (1000, 2000) and the step
\* sets neither error nor 'disconnected'; when attempt retryAttempts fails,
\* error becomes the failure message, connectionStatus 'disconnected' and no
\* retry is scheduled; error and 'disconnected' are set by no other step, and
\* an attempt after the first is started by a scheduled retry only.
C11_RetryBackoff ==
    /\ [](\A i \in 1..Len(requests) : requests[i].attempt \in 1..retryAttempts)
    /\ [][ /\ \A id \in 1..Len(requests) :
                Fails(id) =>
                    IF requests[id].attempt < retryAttempts
                    THEN /\ timers' = timers \cup {RetryOf(id, requests[id].attempt)}
                         /\ RetryOf(id, requests[id].attempt) \notin timers
                         /\ error' = error
                         /\ connectionStatus' = connectionStatus
                    ELSE /\ timers' = timers
                         /\ mounted => /\ error' \in FailureMessages
                                       /\ connectionStatus' = "disconnected"
           /\ (\/ error' \notin {error, NULL}
               \/ (connectionStatus' = "disconnected" /\ connectionStatus # "disconnected"))
                => \E id \in 1..Len(requests) :
                        Fails(id) /\ requests[id].attempt = retryAttempts
           /\ (Len(requests') > Len(requests) /\ requests'[Len(requests')].attempt > 1)
                => \E t \in timers :
                        /\ timers' = timers \ {t}
                        /\ t.attempt = requests'[Len(requests')].attempt
                        /\ t.isRefresh = requests'[Len(requests')].isRefresh
           /\ timers' \subseteq timers \/ \E id \in 1..Len(requests) : Fails(id)
         ]_vars

\* the three attempts of the initial load failed: the retries ran and the
\* error is shown
C11_Witness ==
    /\ Len(requests) = 3
    /\ \A i \in 1..3 : requests[i] = [isRefresh |-> FALSE, attempt |-> i,
                                      state |-> "failed", result |-> NULL]
    /\ timers = {}
    /\ error \in FailureMessages
    /\ connectionStatus = "disconnected"

-----------------------------------------------------------------------------
(* Claims about the sheet source *)

\* the spreadsheet id is that of a published sheet ("" is replaced by the
\* published default where the copy has one)
PublishedIdSet ==
    \/ env["GOOGLE_SHEETS_SPREADSHEET_ID"] = "2PACX-1vR"
    \/ env["GOOGLE_SHEETS_SPREADSHEET_ID"] = "" /\ library = "part_006"

\* a configuration variable that the call needs is unset
MissingConfiguration ==
    \/ env["GOOGLE_SHEETS_SPREADSHEET_ID"] = "" /\ library = "part_005"
    \/ /\ env["GOOGLE_SHEETS_SPREADSHEET_ID"] = "1AbCdEf"
       /\ "" \in {env["GOOGLE_SHEETS_CLIENT_EMAIL"], env["GOOGLE_SHEETS_PRIVATE_KEY"]}

\* the failure paths: the published-sheet fetch fails, the authenticated API
\* fails, the configuration is missing, the (authenticated) spreadsheet has
\* no tab
FailurePath ==
    \/ MissingConfiguration
    \/ PublishedIdSet /\ ((~remote.direct /\ ~remote.proxy) \/ ~remote.ok \/ ~remote.readable)
    \/ ~PublishedIdSet /\ remote.api # "ok"
    \/ ~PublishedIdSet /\ \A i \in 1..Len(remote.tabs) : remote.tabs[i].name = ""

\* the demo dataset: exactly the four sheets, each with headers and rows
IsDemoData(sd) ==
    /\ [i \in 1..Len(sd) |-> sd[i].name]
         = <<"Revenue Tracking", "Expense Tracking", "Production Data", "Inventory Management">>
    /\ \A i \in 1..Len(sd) : Len(sd[i].headers) > 0 /\ Len(sd[i].rows) > 0

\* C12: getAllSheets never rejects, and on every failure path it resolves
\* with the demo dataset of exactly four sheets, each with headers and rows.
C12_NeverRejects ==
    allSheets # <<>> =>
        /\ "resolved" \in DOMAIN allSheets[1]
        /\ FailurePath => IsDemoData(allSheets[1].resolved)

\* what the two copies do: part_006 never rejects; part_005 rejects exactly
\* when the spreadsheet id is unset; a call that resolves on a failure path
\* resolves with the demo dataset; a published workbook without sheets is
\* resolved as it is, with no sheet
SheetsComputed ==
    allSheets # <<>> =>
        /\ "rejected" \in DOMAIN allSheets[1]
             <=> (library = "part_005" /\ env["GOOGLE_SHEETS_SPREADSHEET_ID"] = "")
        /\ "resolved" \in DOMAIN allSheets[1] =>
             /\ FailurePath => IsDemoData(allSheets[1].resolved)
             /\ (PublishedIdSet /\ ~FailurePath /\ remote.tabs = <<>>)
                  => allSheets[1].resolved = <<>>

-----------------------------------------------------------------------------
(* Claims about the page *)

SnapshotFields ==
    {"metadata", "production", "quality", "revenue", "expenses", "summaryCards",
     "financial", "financialMetrics", "operationalMetrics", "sheetsConfig", "sheets",
     "rawData"}

\* the page got no sheet: the race was lost to the timeout, getAllSheets
\* rejected, or the value it resolved with is missing, no object or empty
NoSheetData == settlement # "sheets" \/ Len(sheetsData) = 0

\* every metric of the snapshot d is 0
AllZero(d) ==
    /\ d.metadata.totalSheets = 0 /\ d.metadata.totalRecords = 0
    /\ d.production = [ activeBatches |-> 0, totalExpectedYield |-> Num(0),
                        totalHarvested |-> Num(0), harvestEfficiency |-> Num(0) ]
    /\ d.quality = [ rejectionRate |-> Num(0), avgQualityScore |-> Num(0),
                     onTimePercentage |-> Num(0), totalDeliveries |-> 0,
                     onTimeDeliveries |-> 0, totalHarvested |-> Num(0) ]
    /\ \A side \in {d.revenue, d.expenses} :
            side.total = Num(0) /\ side.sources = 0 /\ side.categories = 0 /\ side.records = 0
    /\ \A f \in {d.financial, d.financialMetrics} :
            /\ f.revenue = Num(0) /\ f.expenses = Num(0) /\ f.profit = Num(0)
            /\ f.profitMargin = Num(0) /\ f.revenueStreams = 0 /\ f.expenseCategories = 0
    /\ d.operationalMetrics = [ total |-> 0, active |-> 0, completed |-> 0, pending |-> 0,
                                completionRate |-> 0 ]
    /\ \A i \in 1..Len(d.summaryCards) : d.summaryCards[i].value = Num(0)

Succeeds(id) == requests[id].state = "pending" /\ requests'[id].state = "succeeded"

\* C14: data is null before the first successful fetch; a successful fetch
\* replaces it with its payload, whole; no other step (a failed attempt, the
\* failure of the last retry, an abort, the start of a fetch) changes it.
\* Hence data is the payload of the most recently completed successful
\* fetch.  (The component is mounted: React keeps no state of an unmounted one.)
C14_LastKnownGood ==
    /\ []((\A id \in 1..Len(requests) : requests[id].state # "succeeded") => data = NULL)
    /\ [][ /\ \A id \in 1..Len(requests) :
                (Succeeds(id) /\ mounted) => data' = requests'[id].result
           /\ data' # data =>
                \E id \in 1..Len(requests) : Succeeds(id) /\ data' = requests'[id].result
         ]_vars

\* the first load succeeded and the three attempts of a refresh failed: the
\* error is shown and the data of the first load is still there
C14_Witness ==
    /\ mounted
    /\ Len(requests) = 4
    /\ requests[1].state = "succeeded"
    /\ \A i \in 2..4 : requests[i].state = "failed"
    /\ error \in FailureMessages
    /\ connectionStatus = "disconnected"
    /\ data = requests[1].result

RECURSIVE classifiedRows(_, _)
classifiedRows(sd, type) ==
    IF sd = <<>> THEN <<>>
    ELSE (IF detectSheetType(Head(sd).name, Head(sd).headers) = type
          THEN Head(sd).rows ELSE <<>>)
         \o classifiedRows(Tail(sd), type)

\* C16: the aggregates of a dashboard computed from a snapshot are those of
\* the rows of the sheets that detectSheetType classifies as production-batches
\* (activeBatches, totalExpectedYield), harvest-tracking (harvested quantity,
\* quality scores) and post-harvest-logistics (deliveries), whatever the
\* sheets are called.
C16_FollowsClassifier ==
    \A i \in 1..Len(dashboard) :
        (settlement = "sheets" /\ Len(sheetsData) > 0) =>
            /\ dashboard[i].production.activeBatches
                   = countActive(classifiedRows(sheetsData, "production-batches"), now)
            /\ dashboard[i].production.totalExpectedYield
                   = sumExpectedYield(classifiedRows(sheetsData, "production-batches"), Num(0))
            /\ dashboard[i].quality.totalHarvested
                   = sumField(classifiedRows(sheetsData, "harvest-tracking"),
                              harvestedFields, Num(0))
            /\ dashboard[i].quality.totalDeliveries
                   = Len(classifiedRows(sheetsData, "post-harvest-logistics"))
            /\ dashboard[i].quality.onTimeDeliveries
                   = countOnTime(classifiedRows(sheetsData, "post-harvest-logistics"))


-----------------------------------------------------------------------------
(* Claims about the field lookup *)

\* the positions of the candidates that are present in the row
PresentAt(row, candidates) == {i \in 1..Len(candidates) : candidates[i] \in DOMAIN row}

\* the first of them in list order
FirstPresent(row, candidates) ==
    CHOOSE i \in PresentAt(row, candidates) : \A j \in PresentAt(row, candidates) : i <= j

\* C17: tryFieldNames returns the normalized value of the first candidate, in
\* list order, that is present in the row, also when that value is 0 because
\* the field is empty or unparseable, and 0 when no candidate is present.
C17_FirstPresent ==
    lookupValue # <<>> =>
        lookupValue[1] =
            IF PresentAt(lookupRow, lookupFields) = {} THEN Num(0)
            ELSE cleanNumericValue(
                     lookupRow[lookupFields[FirstPresent(lookupRow, lookupFields)]])

\* an empty first candidate hides the amount of the second one
C17_Witness ==
    /\ lookupFields = expectedYieldFields
    /\ DOMAIN lookupRow = {"ExpectedYield(kg)", "ExpectedYield"}
    /\ lookupRow["ExpectedYield(kg)"] = ""
    /\ lookupRow["ExpectedYield"] = "70"
    /\ lookupValue = <<Num(0)>>


-----------------------------------------------------------------------------
(* Claims about the production aggregator *)

\* what a batch row adds to the expected yield: its revised yield if that is
\* not 0, else its expected yield
YieldOf(row) ==
    IF tryFieldNames(row, revisedYieldFields) # Num(0)
    THEN tryFieldNames(row, revisedYieldFields)
    ELSE tryFieldNames(row, expectedYieldFields)

\* the sum of YieldOf over the first n rows
RECURSIVE YieldOfFirst(_, _)
YieldOfFirst(rows, n) ==
    IF n = 0 THEN Num(0) ELSE Plus(YieldOfFirst(rows, n - 1), YieldOf(rows[n]))

\* C18: totalExpectedYield is the sum over the batch rows of the revised yield
\* where it is not 0 and of the expected yield elsewhere; a row with both
\* counts with its revised yield only.
C18_RevisedOverExpected ==
    \A i \in 1..Len(dashboard) :
        (settlement = "sheets" /\ Len(sheetsData) > 0) =>
            dashboard[i].production.totalExpectedYield
                = YieldOfFirst(rowsOf(sheetsData, "Batches"),
                               Len(rowsOf(sheetsData, "Batches")))

\* a row with both yields, counted with the revised one, and a row with the
\* expected yield only
C18_Witness ==
    /\ Len(dashboard) = 1
    /\ Len(sheetsData) = 1
    /\ sheetsData[1].name = "Batches"
    /\ Len(sheetsData[1].rows) = 2
    /\ Get(sheetsData[1].rows[1], "RevisedYield(kg)") = "120"
    /\ Get(sheetsData[1].rows[1], "ExpectedYield(kg)") = "100"
    /\ Get(sheetsData[1].rows[2], "RevisedYield(kg)") = "0"
    /\ Get(sheetsData[1].rows[2], "ExpectedYield(kg)") = "100"
    /\ dashboard[1].production.totalExpectedYield = Num(220)


-----------------------------------------------------------------------------
(* Claims about the ratios *)

\* |q * den - 100 * num| in units of 10^-(q.e + den.e + num.e): how far the
\* percentage q is from num / den * 100
OffBy(q, num, den) ==
    LET d == q.m * den.m * Pow10(num.e) - 100 * num.m * Pow10(q.e + den.e)
    IN  IF d < 0 THEN -d ELSE d

\* q has at most places decimals and is within half a unit of the last of
\* them from num / den * 100, for den > 0
RoundedPercentage(q, num, den, places) ==
    /\ q.e <= places
    /\ OffBy(q, num, den) * 2 * Pow10(places) <= den.m * Pow10(q.e + num.e)

\* the dashboards computed from a snapshot
Computed == IF settlement = "sheets" /\ Len(sheetsData) > 0 THEN 1..Len(dashboard) ELSE {}

C20_AsStated ==
    \A i \in Computed :
        LET p == dashboard[i].production
        IN  IF Gt(p.totalExpectedYield, Num(0))
            THEN OffBy(p.harvestEfficiency, p.totalHarvested, p.totalExpectedYield) = 0
            ELSE p.harvestEfficiency = Num(0)

\* C20: harvestEfficiency is totalHarvested / totalExpectedYield * 100 rounded
\* to one decimal for a positive expected yield and 0 otherwise, also for a
\* snapshot without batch rows or without harvest rows.
C20_HarvestEfficiency ==
    \A i \in Computed :
        LET p == dashboard[i].production
        IN  IF Gt(p.totalExpectedYield, Num(0))
            THEN RoundedPercentage(p.harvestEfficiency, p.totalHarvested,
                                   p.totalExpectedYield, 1)
            ELSE p.harvestEfficiency = Num(0)

\* 119 kg harvested of 150 kg expected, shown as 79.3
C20_Witness ==
    /\ Computed # {}
    /\ dashboard[1].production.totalExpectedYield = Num(150)
    /\ dashboard[1].production.totalHarvested = Num(119)
    /\ dashboard[1].production.harvestEfficiency = [m |-> 793, e |-> 1]

\* harvest rows and no batch row: no division by the expected yield of 0
C20_NoBatches ==
    /\ Computed # {}
    /\ rowsOf(sheetsData, "Batches") = <<>>
    /\ dashboard[1].production.totalHarvested = Num(80)
    /\ dashboard[1].production.totalExpectedYield = Num(0)
    /\ dashboard[1].production.harvestEfficiency = Num(0)


\* C21: the production metrics of every dashboard computed from a snapshot
\* are not negative: activeBatches >= 0, totalExpectedYield >= 0 and
\* totalHarvested >= 0, also when yield or harvest cells hold negative numbers.
C21_NonNegative ==
    \A i \in Computed :
        /\ dashboard[i].production.activeBatches >= 0
        /\ Ge(dashboard[i].production.totalExpectedYield, Num(0))
        /\ Ge(dashboard[i].production.totalHarvested, Num(0))


-----------------------------------------------------------------------------
(* Claims about the active batches *)

BatchRows == rowsOf(sheetsData, "Batches")

\* the batch rows whose expected harvest is a date of the model not before t
ActiveAt(t) ==
    { r \in 1..Len(BatchRows) :
        /\ "ExpectedHarvest" \in DOMAIN BatchRows[r]
        /\ parseDate(BatchRows[r]["ExpectedHarvest"]) # InvalidDate
        /\ parseDate(BatchRows[r]["ExpectedHarvest"]) >= t }

\* C22: activeBatches is the number of batch rows whose expected harvest is
\* a valid date not before the clock of the request; it lies between 0 and
\* the number of batch rows, and a later request of the same snapshot never
\* counts more.
C22_ActiveBatches ==
    /\ [][ Home => dashboard'[1].production.activeBatches = Cardinality(ActiveAt(now)) ]_vars
    /\ [][ Rerender =>
             dashboard'[2].production.activeBatches = Cardinality(ActiveAt(now)) ]_vars
    /\ [](\A i \in 1..Len(dashboard) :
             /\ dashboard[i].production.activeBatches >= 0
             /\ dashboard[i].production.activeBatches <= Len(BatchRows))
    /\ [](Len(dashboard) = 2 =>
             dashboard[2].production.activeBatches <= dashboard[1].production.activeBatches)

\* two batches due on 2025-06-01 and in 2030 and one without a date: both
\* dated ones active at midnight of 2025-06-01, one of them an hour later
C22_Witness ==
    /\ Len(dashboard) = 2
    /\ Len(BatchRows) = 2
    /\ BatchRows[1]["ExpectedHarvest"] = "2025-06-01"
    /\ BatchRows[2]["ExpectedHarvest"] = "2030-01-01"
    /\ now = 24 * DaysFromCivil(2025, 6, 1) + 1
    /\ dashboard[1].production.activeBatches = 2
    /\ dashboard[2].production.activeBatches = 1

\* rows whose expected harvest is empty, no date or missing are not counted
C22_Undated ==
    /\ Len(dashboard) >= 1
    /\ Len(BatchRows) = 2
    /\ BatchRows[1]["ExpectedHarvest"] = ""
    /\ BatchRows[2]["ExpectedHarvest"] = "soon"
    /\ dashboard[1].production.activeBatches = 0


-----------------------------------------------------------------------------
(* Claims about the deliveries *)

DeliveryRows == rowsOf(sheetsData, "Post_Harvest")

\* the logistics rows whose on-time flag is the text "1"
OnTimeRows ==
    { r \in 1..Len(DeliveryRows) :
        /\ "OnTime(0/1)" \in DOMAIN DeliveryRows[r]
        /\ DeliveryRows[r]["OnTime(0/1)"] = "1" }

\* the counts of C23, which the statement and its amendment share
DeliveryCounts(q) ==
    /\ q.totalDeliveries = Len(DeliveryRows)
    /\ q.onTimeDeliveries = Cardinality(OnTimeRows)
    /\ q.onTimeDeliveries <= q.totalDeliveries
    /\ Ge(q.onTimePercentage, Num(0))
    /\ Ge(Num(100), q.onTimePercentage)

-----------------------------------------------------------------------------
(* Claims about the serial dates *)

\* the whole days of the number of the cell and the rest of the day in
\* units of 10^-4 day
SerialDays == numValueOf(cellValue).m \div Pow10(numValueOf(cellValue).e)
SerialRest == Scaled([numValueOf(cellValue) EXCEPT !.m = @ % Pow10(numValueOf(cellValue).e)], 4)
SerialMinutes == (SerialRest * 1440) \div 10000

\* the cell is a number, or a text that starts with one, strictly between
\* 30000 and 2958466
InSerialRange ==
    /\ numValueOf(cellValue) # NaN
    /\ SerialDays > 30000 \/ (SerialDays = 30000 /\ SerialRest > 0)
    /\ SerialDays < 2958466

\* C24: a cell is a serial date exactly when its number is strictly between
\* 30000 and 2958466; the renderer converts only such a cell as a serial, to
\* the day (n - 25569) days after the UNIX epoch; a whole serial is shown
\* as a date only, and the time is shown iff the UTC hour or minute is not 0.
C24_SerialDates ==
    /\ excelDate # <<>> => (excelDate[1] <=> InSerialRange)
    /\ (formatted # <<>> /\ ~isDateString(cellValue)) =>
          /\ InSerialRange
          /\ DaysFromCivil(formatted[1].date.year, formatted[1].date.month,
                           formatted[1].date.day) = SerialDays - 25569
          /\ formatted[1].date.month \in 1..12
          /\ formatted[1].date.day \in 1..31
          /\ (formatted[1].time # <<>>) <=> (SerialMinutes # 0)
          /\ formatted[1].time # <<>> =>
                /\ formatted[1].time[1] * 60 + formatted[1].time[2] = SerialMinutes
                /\ formatted[1].time[2] \in 0..59
          /\ SerialRest = 0 => formatted[1].time = <<>>

\* the serial 45901 is shown as 1 September 2025 without a time
C24_Witness ==
    /\ cellValue = [number |-> Num(45901)]
    /\ excelDate = <<TRUE>>
    /\ formatted = << [date |-> [year |-> 2025, month |-> 9, day |-> 1], time |-> <<>>] >>

\* half a day later the time is shown
C24_Noon ==
    /\ cellValue = [string |-> "45901.5"]
    /\ formatted = << [date |-> [year |-> 2025, month |-> 9, day |-> 1], time |-> <<12, 0>>] >>

\* 43 seconds after midnight no time is shown
C24_Seconds ==
    /\ cellValue = [string |-> "45901.0005"]
    /\ formatted = << [date |-> [year |-> 2025, month |-> 9, day |-> 1], time |-> <<>>] >>


-----------------------------------------------------------------------------
(* Claims about the counts of the dashboard *)

\* the row count of the first n sheets of the snapshot
RECURSIVE RecordsOfFirst(_)
RecordsOfFirst(n) ==
    IF n = 0 THEN 0 ELSE RecordsOfFirst(n - 1) + Len(sheetsData[n].rows)

-----------------------------------------------------------------------------
(* Claims about aborted, concurrent and unmounted fetches *)

\* C26: the call of an aborted request returns without a trace: error,
\* connectionStatus, the scheduled retries and data are as before, and while
\* the fetch that replaced it is pending, that fetch's abort controller and
\* the loading and refreshing flags stay in place.
C26_AbortIsQuiet ==
    [][ AbortDelivered =>
          /\ error' = error
          /\ connectionStatus' = connectionStatus
          /\ timers' = timers
          /\ data' = data
          /\ Pending # {} =>
                /\ abortControllerRef' = abortControllerRef
                /\ loading' = loading
                /\ refreshing' = refreshing ]_vars

\* what does hold of it: no error, no status, no retry, no data
C26_NoError ==
    [][ AbortDelivered =>
          /\ error' = error
          /\ connectionStatus' = connectionStatus
          /\ timers' = timers
          /\ data' = data ]_vars


\* C27: while the component is mounted and a request is in flight or a retry
\* is scheduled, loading or refreshing is true, so that the tick of the
\* auto-refresh interval never starts a fetch beside them.
C27_BusyWhileFetching ==
    /\ [](mounted /\ (Pending # {} \/ timers # {}) => loading \/ refreshing)
    /\ [][AutoRefreshTick => Pending = {} /\ timers = {}]_vars


\* no request in flight and no retry scheduled
Quiet == Pending = {} /\ Aborted = {} /\ timers = {}

\* the flags are down and the status tells how the last call ended
Settled ==
    /\ ~loading /\ ~refreshing
    /\ \/ connectionStatus = "connected" /\ error = NULL
       \/ connectionStatus = "disconnected" /\ error # NULL

\* C28: when every request is answered and every timer fires, every chain
\* of the mounted hook ends: from any state with a request in flight or a
\* retry scheduled the hook comes to rest with loading and refreshing false
\* and connectionStatus no longer 'connecting'; a success leaves it
\* 'connected' with error null, the failure of the last attempt
\* 'disconnected' with the error set.
C28_Terminates ==
    /\ (Pending # {} \/ timers # {}) ~> (~mounted \/ (Quiet /\ Settled))
    /\ [][ (mounted /\ FetchSucceed) =>
              connectionStatus' = "connected" /\ error' = NULL ]_vars
    /\ [][ (mounted /\ FetchFail /\ timers' = timers) =>
              connectionStatus' = "disconnected" /\ error' # NULL ]_vars

\* three attempts failed: at rest, disconnected, the error set
C28_Witness ==
    /\ mounted /\ Quiet /\ Settled
    /\ Len(requests) = 3
    /\ \A i \in 1..3 : requests[i].state = "failed" /\ requests[i].attempt = i
    /\ connectionStatus = "disconnected"
    /\ error # NULL

\* a refresh superseded the initial load and succeeded
C28_Superseded ==
    /\ mounted /\ Quiet /\ Settled
    /\ Len(requests) = 2
    /\ requests[1].state = "cancelled"
    /\ requests[2].state = "succeeded"
    /\ connectionStatus = "connected"


\* C29: once the component unmounted no fetch request is started and no
\* state of the hook is updated; the unmount clears the interval and aborts
\* the request in flight, and a retry scheduled before it fires no fetch.
C29_UnmountStops ==
    /\ [][ ~mounted =>
             /\ Len(requests') = Len(requests)
             /\ <<data, loading, error, refreshing, connectionStatus>>'
                    = <<data, loading, error, refreshing, connectionStatus>> ]_vars
    /\ [][ Unmount => ~intervalRef' /\ \A i \in 1..Len(requests) : requests'[i].state # "pending" ]_vars

\* what does hold after the unmount: the state of the hook is not updated
\* and the interval is cleared
C29_NoUpdate ==
    /\ [][ ~mounted =>
             <<data, loading, error, refreshing, connectionStatus>>'
                 = <<data, loading, error, refreshing, connectionStatus>> ]_vars
    /\ [][ Unmount => ~intervalRef' ]_vars

-----------------------------------------------------------------------------
(* C30: the rows a published sheet is parsed into *)

\* the call was answered from the published workbook
PublishedAnswer ==
    /\ allSheets # <<>>
    /\ "resolved" \in DOMAIN allSheets[1]
    /\ PublishedIdSet /\ ~FailurePath

\* a cell that is data: a non-blank string or a nonzero number
DataCell(c) ==
    \/ "num" \in DOMAIN c /\ c.num # 0
    \/ "str" \in DOMAIN c /\ trim(c.str) # ""

RowHasData(row) == \E i \in 1..Len(row) : DataCell(row[i])

\* row r of the tab comes after a run of MAX_CONSECUTIVE_EMPTY consecutive
\* data rows without data
AfterRun(tab, r) ==
    \E j \in 2..(r - MAX_CONSECUTIVE_EMPTY) :
        \A x \in j..(j + MAX_CONSECUTIVE_EMPTY - 1) : ~RowHasData(tab.values[x])

\* the data rows the claim keeps, and the n-th of them in the original order
Kept(tab) ==
    {r \in 2..Len(tab.values) : RowHasData(tab.values[r]) /\ ~AfterRun(tab, r)}

NthKept(tab, n) ==
    CHOOSE r \in Kept(tab) : Cardinality({s \in Kept(tab) : s < r}) = n - 1

\* the rows emitted for a tab are the kept rows in their order, each the
\* object the parser builds from that row
EmitsKept(tab, sheet) ==
    /\ Len(sheet.rows) = Cardinality(Kept(tab))
    /\ \A n \in 1..Len(sheet.rows) :
          sheet.rows[n] = rowObject(sheet.headers,
                              LAMBDA i : publishedText(cellAt(tab.values[NthKept(tab, n)], i)))

\* a blank header at (zero-based) index i gets the key col_(i+1)
FallbackKeys(sheet) ==
    \A n \in 1..Len(sheet.rows) : \A i \in 1..Len(sheet.headers) :
        sheet.headers[i] = "" => ("col_" \o ToString(i)) \in DOMAIN sheet.rows[n]

\* C30: the rows of a parsed published sheet are exactly the data rows with
\* data that precede the first run of 5 consecutive rows without data, in
\* their original order; each emitted row has one key per header, and a
\* blank header at index i gets the fallback key col_(i+1).
C30_PublishedRows ==
    PublishedAnswer =>
        \A k \in 1..Len(remote.tabs) :
            LET tab == remote.tabs[k]
                sheet == allSheets[1].resolved[k]
            IN  Len(tab.values) > 0 =>
                  /\ EmitsKept(tab, sheet)
                  /\ FallbackKeys(sheet)
                  /\ \A n \in 1..Len(sheet.rows) :
                        Cardinality(DOMAIN sheet.rows[n]) = Len(sheet.headers)

\* what the parser guarantees: the emitted rows are the kept rows in order,
\* blank headers get their fallback keys, and a row has one key per
\* distinct column key
C30_DistinctKeys ==
    PublishedAnswer =>
        \A k \in 1..Len(remote.tabs) :
            LET tab == remote.tabs[k]
                sheet == allSheets[1].resolved[k]
            IN  Len(tab.values) > 0 =>
                  /\ EmitsKept(tab, sheet)
                  /\ FallbackKeys(sheet)
                  /\ \A n \in 1..Len(sheet.rows) :
                        DOMAIN sheet.rows[n]
                          = {columnKey(sheet.headers, i) : i \in 1..Len(sheet.headers)}

\* a published tab with a run of five rows without data was parsed: the row
\* after the run of four is kept, the row after the run of five is dropped
C30_RunReached ==
    /\ PublishedAnswer
    /\ Len(remote.tabs) = 1 /\ remote.tabs[1].name = "Gaps"
    /\ Len(allSheets[1].resolved[1].rows) = 2
    /\ allSheets[1].resolved[1].rows[2]["Item"] = "0"

=============================================================================
